---- MODULE Spec2Model ----
(***************************************************************************)
(* A model of src/hotplug_manager.py, the Game Bird hot-plug daemon:       *)
(* singleton lock, startup, the polling loop with its debounce engine,     *)
(* the external-manager recovery check, the self-managed liveness check    *)
(* and restart_fbcp() (SIGTERM -> wait -> SIGKILL -> spawn).               *)
(* The debounce engine, set_audio / _amixer, _swap_asound, toggle_hat,      *)
(* fbcp_cmdline_matches, hdmi_connected and                                *)
(* _external_fbcp_manager_present are also run on their own, each under a  *)
(* specification whose initial states draw the inputs.                     *)
(*                                                                         *)
(* The daemon is one thread of control; pc is its position.  Everything    *)
(* the operating system decides (readings of the HDMI probe, outcomes of   *)
(* pidof / systemctl / modprobe / Popen, processes leaving the process     *)
(* table, signals) is a nondeterministic choice.                           *)
(***************************************************************************)
EXTENDS Integers, Sequences, FiniteSets, TLC

\* ---------------------------------------------------------------- constants
POLL_DELAY == 2
debounce_polls == 3
external_start_failure_threshold == 6
fbcp_service_attempt_sec == 10
heartbeat_sec == 30
GRACE_POLLS == 10

FBCP_CMD == "/usr/local/bin/fbcp-ili9341"
FBCP_ARGS == <<"-x", "200", "-y", "120", "-w", "240", "-h", "240", "-noscaling">>

\* ------------------------------------------------------------------- bounds
\* The process table holds at most MaxPid compositor processes.
MaxPid == 3
\* The monotonic clock stops the run when it would pass MaxNow.
MaxNow == 60
\* The probe does not return the same reading more than MaxStreak polls in a row.
MaxStreak == 4

\* Launches of the script that can be in flight together.
NInst == 3
\* Length of the sequences of raw readings fed to the debounce engine alone.
MaxReadings == 7
\* Compositor processes pidof lists when fbcp_cmdline_matches is run alone.
MaxProcs == 2
\* HDMI connectors that can have a status file.
MaxConn == 2
\* The longest runcommand.cfg, in lines, and the number of _swap_asound calls in a row.
MaxLines == 3
MaxRoutes == 2
\* Calls of toggle_hat in a row.
MaxCalls == 4

Pids == 1..MaxPid
Insts == 1..NInst
\* PID of the early-boot compositor (fbcp-early.service), when there is one.
EarlyPid == 1

\* Optional values: Python's None and a present value.
None == <<>>
Some(v) == <<v>>

\* argv of a compositor process; NoProc marks a PID with no process.
NoProc == <<>>
ExpectedArgv == <<FBCP_CMD>> \o FBCP_ARGS
\* A compositor started by something else with other arguments.
StaleArgv == <<FBCP_CMD, "-noscaling">>

VARIABLES
  pc,                         \* position of the daemon
  ret,                        \* caller of restart_fbcp / ensure_fbcp_running
  exit_code,                  \* exit status once the process has ended, else None
  manage_fbcp,                \* TRUE: SelfManaged, FALSE: ExternallyManaged
  external_start_failures,
  now,                        \* time.monotonic() as sampled at the top of the loop
  last_fbcp_service_attempt,
  last_heartbeat,
  last_state, stable, stable_count,
  procs,                      \* the process table of compositor processes: pid -> argv
  hat_loaded,                 \* /sys/module/mk_arcade_joystick_rpi exists
  audio,                      \* profile last routed by set_audio, None before
  hatReq,                     \* argument of the last toggle_hat call, None before
  pids, alive, polls,         \* locals of restart_fbcp
  stale, termed, killed,      \* history of the restart_fbcp call in progress
  calls,                      \* calls made so far in the current pass of the loop
  fed,                        \* the last readings fed to the debounce engine
  failRun,                    \* in-loop start attempts that failed since the last success
  prevAttemptAt,              \* clock of the previous in-loop start attempt, -1 if none
  upSeen,                     \* the recovery check found the compositor up since the failures now counted began
  inst,                       \* launched instances of the script: instance -> position
  instExit,                   \* exit status of an instance that has ended, else None
  instEnd,                    \* why an instance ended: "redundant", "signal", "exception"; else "none"
  child,                      \* a compositor spawned by the instance is alive
  lockOwner,                  \* the instance holding the flock on LOCK_FILE, 0 if none
  lockFile,                   \* content of LOCK_FILE: the instance whose PID it holds, 0 if empty
  engine,                     \* a run of the debounce engine on given readings
  mixer,                      \* a call of set_audio or of _amixer, with its locals
  matcher,                    \* a call of fbcp_cmdline_matches, with its locals
  probe,                      \* a call of hdmi_connected, with its locals
  loader,                     \* calls of toggle_hat in a row, with what each did
  detector                    \* a call of _external_fbcp_manager_present, with its locals

vars == <<pc, ret, exit_code, manage_fbcp, external_start_failures, now,
          last_fbcp_service_attempt, last_heartbeat, last_state, stable, stable_count, procs,
          hat_loaded, audio, hatReq, pids, alive, polls, stale, termed,
          killed, calls, fed, failRun, prevAttemptAt, upSeen,
          inst, instExit, instEnd, child, lockOwner, lockFile,
          engine, mixer, matcher, probe, loader, detector>>

\* The single-function runs.
fnVars == <<engine, mixer, matcher, probe, loader, detector>>

daemonVars == <<pc, ret, exit_code, manage_fbcp, external_start_failures, now,
                last_fbcp_service_attempt, last_heartbeat, last_state, stable, stable_count, procs,
                hat_loaded, audio, hatReq, pids, alive, polls, stale, termed,
                killed, calls, fed, failRun, prevAttemptAt, upSeen>>

lockVars == <<inst, instExit, instEnd, child, lockOwner, lockFile>>
mainVars == <<manage_fbcp, external_start_failures, now, last_fbcp_service_attempt,
              last_heartbeat, last_state, stable, stable_count>>
debounceVars == <<last_state, stable, stable_count, fed>>
extVars == <<external_start_failures, last_fbcp_service_attempt, failRun, prevAttemptAt, upSeen>>
restartVars == <<pids, alive, polls, stale, termed, killed>>
audioHatVars == <<hat_loaded, audio, hatReq>>

\* ------------------------------------------------------------ process table
LivePids(table) == {p \in Pids : table[p] # NoProc}

\* _fbcp_pids(): the PIDs pidof printed, [] on any failure.
fbcp_pids(table, pidofOk) == IF pidofOk THEN LivePids(table) ELSE {}

\* fbcp_running(): pidof printed at least one PID; any failure of pidof reads as FALSE.
fbcp_running(table, pidofOk) == pidofOk /\ LivePids(table) # {}

\* _proc_cmdline(pid), lines 111-119: /proc/<pid>/cmdline split at the NUL
\* bytes, empty parts dropped; nothing when the file cannot be read.
proc_cmdline(argv, canRead) ==
  IF canRead THEN SelectSeq(argv, LAMBDA a : a # "") ELSE <<>>

\* A second path of the compositor binary: a symlink to FBCP_CMD.
FbcpSymlink == "/usr/bin/fbcp-ili9341"

\* os.path.realpath(path): the path with its symlinks followed.
realpath(path) == IF path = FbcpSymlink THEN FBCP_CMD ELSE path

\* Lines 126-131: the test fbcp_cmdline_matches makes on one cmdline.
CmdMatches(cmd) ==
  /\ cmd # <<>>
  /\ \/ cmd = ExpectedArgv
     \/ realpath(cmd[1]) = realpath(FBCP_CMD) /\ Tail(cmd) = FBCP_ARGS

\* fbcp_cmdline_matches(): some enumerated process runs with the expected argv.
fbcp_cmdline_matches(table, pidofOk) ==
  \E p \in fbcp_pids(table, pidofOk) : CmdMatches(proc_cmdline(table[p], TRUE))

\* The PIDs the kernel can give a new process: not in use, and not one a
\* restart_fbcp call in progress has seen (PIDs are not reused that fast).
FreePids(table, seen) == {p \in Pids \ {EarlyPid} : table[p] = NoProc /\ p \notin seen}
NewPid(table, seen) == CHOOSE p \in FreePids(table, seen) : \A q \in FreePids(table, seen) : p <= q

\* The process table after Popen([FBCP_CMD] + FBCP_ARGS) (or a start by systemd).
Spawned(table, pid, argv) == [table EXCEPT ![pid] = argv]

\* The process table after "systemctl stop fbcp-early.service".
stop_fbcp_early(table, ok) == IF ok THEN [table EXCEPT ![EarlyPid] = NoProc] ELSE table


\* --------------------------------------------------------------------- Init
\* The state when main() is entered: the lock is held, the handlers are
\* registered, and the locals of main() have the values lines 414-447 give them.
InitDaemon ==
  /\ pc = "start"
  /\ ret = "none"
  /\ exit_code = None
  /\ manage_fbcp = TRUE
  /\ external_start_failures = 0
  /\ now = 0
  /\ last_fbcp_service_attempt = 0
  /\ last_heartbeat = 0
  /\ last_state = None
  /\ stable = None
  /\ stable_count = 0
  /\ procs \in {[p \in Pids |-> IF p = EarlyPid THEN a ELSE NoProc] :
                  a \in {NoProc, ExpectedArgv, StaleArgv}}
  /\ hat_loaded \in BOOLEAN
  /\ audio = None
  /\ hatReq = None
  /\ pids = {} /\ alive = {} /\ polls = 0
  /\ stale = {} /\ termed = {} /\ killed = {}
  /\ calls = <<>>
  /\ fed = <<>>
  /\ failRun = 0
  /\ prevAttemptAt = -1
  /\ upSeen = FALSE

\* No single-function run is in progress.
Idle == [at |-> "idle"]
NoRuns ==
  /\ engine = Idle /\ mixer = Idle /\ matcher = Idle /\ probe = Idle
  /\ loader = Idle /\ detector = Idle

\* The daemon whose main() is modelled is instance 1: it holds the lock and has
\* written its PID into the lock file (lines 41-43).
Init ==
  /\ InitDaemon
  /\ inst = [i \in Insts |-> IF i = 1 THEN "running" ELSE "idle"]
  /\ instExit = [i \in Insts |-> None]
  /\ instEnd = [i \in Insts |-> "none"]
  /\ child = [i \in Insts |-> FALSE]
  /\ lockOwner = 1
  /\ lockFile = 1
  /\ NoRuns

\* ------------------------------------------------------------------ startup
\* _external_fbcp_manager_present(): the override, or a unit file that systemctl
\* reports enabled or active.
external_fbcp_manager_present(override, unitFile, isEnabled, isActive) ==
  override \/ (unitFile /\ (isEnabled \/ isActive))

\* Entering restart_fbcp() from `caller`.
CallRestart(caller) ==
  /\ pc' = "r_pidof"
  /\ ret' = caller

\* main(), lines 413-416: choose the supervision mode.
MainStart ==
  /\ pc = "start"
  /\ \E override, unitFile, isEnabled, isActive \in BOOLEAN :
       manage_fbcp' = ~external_fbcp_manager_present(override, unitFile, isEnabled, isActive)
  /\ pc' = IF manage_fbcp' THEN "startup_self" ELSE "startup_ext"
  /\ UNCHANGED <<ret, exit_code, procs, calls>>
  /\ UNCHANGED <<now, last_heartbeat, debounceVars, extVars, restartVars, audioHatVars>>
  /\ UNCHANGED <<lockVars, fnVars>>

\* main(), lines 417-425: SelfManaged startup.
StartupSelf ==
  /\ pc = "startup_self"
  /\ \E stopOk, pidofOk1, pidofOk2 \in BOOLEAN :
       /\ procs' = stop_fbcp_early(procs, stopOk)
       /\ IF ~fbcp_running(procs', pidofOk1)
            THEN pc' = "ensure" /\ ret' = "startup"
            ELSE IF ~fbcp_cmdline_matches(procs', pidofOk2)
                   THEN CallRestart("startup")
                   ELSE pc' = "loop_top" /\ ret' = ret
  /\ UNCHANGED <<exit_code, calls, mainVars, fed, failRun, prevAttemptAt, upSeen>>
  /\ UNCHANGED <<restartVars, audioHatVars>>
  /\ UNCHANGED <<lockVars, fnVars>>

\* "systemctl start fbcp-ili9341.service": systemd starts the compositor or does not.
\* A unit whose process is already up is left as it is.
systemctl_start(table, started) ==
  IF started /\ LivePids(table) = {}
    THEN Spawned(table, NewPid(table, {}), ExpectedArgv) ELSE table

\* main(), lines 426-433: ExternallyManaged startup.
StartupExt ==
  /\ pc = "startup_ext"
  /\ \E pidofOk, started \in BOOLEAN :
       IF ~fbcp_running(procs, pidofOk)
         THEN /\ started => FreePids(procs, {}) # {}
              /\ procs' = systemctl_start(procs, started)
         ELSE UNCHANGED procs
  /\ pc' = "loop_top"
  /\ UNCHANGED <<ret, exit_code, calls, mainVars, fed, failRun, prevAttemptAt, upSeen>>
  /\ UNCHANGED <<restartVars, audioHatVars>>
  /\ UNCHANGED <<lockVars, fnVars>>

EnsureSpawnsBlind(table, pidofOk, popenOk) == popenOk

\* Lines 176-181: ensure_fbcp_running gets a compositor started: fbcp_running()
\* said no, and Popen did not raise.
EnsureSpawns(table, pidofOk, popenOk) == ~fbcp_running(table, pidofOk) /\ popenOk

\* ensure_fbcp_running(), lines 174-183: spawn only when pidof finds nothing;
\* a failing Popen is logged, not raised.
EnsureFbcpRunning ==
  /\ pc = "ensure"
  /\ \E pidofOk, popenOk \in BOOLEAN :
       IF EnsureSpawns(procs, pidofOk, popenOk)
         THEN /\ FreePids(procs, {}) # {}
              /\ procs' = Spawned(procs, NewPid(procs, {}), ExpectedArgv)
         ELSE UNCHANGED procs
  /\ pc' = IF ret = "startup" THEN "loop_top" ELSE "liveness"
  /\ ret' = "none"
  /\ UNCHANGED <<exit_code, calls, mainVars, fed, failRun, prevAttemptAt, upSeen>>
  /\ UNCHANGED <<restartVars, audioHatVars>>
  /\ UNCHANGED <<lockVars, fnVars>>


\* ---------------------------------------------------------------- main loop
\* What one pass of the loop adds to the clock: never less than the POLL_DELAY
\* sleep; here half a cooldown of the recovery attempt, or a whole one.
Ticks == {t \in {fbcp_service_attempt_sec \div 2, fbcp_service_attempt_sec} : t >= POLL_DELAY}

\* Line 452: the heartbeat line is due.
HeartbeatDue(t) == (t - last_heartbeat) >= heartbeat_sec

\* Lines 449-454 and 507: the sleep between two passes, `now = time.monotonic()`,
\* and the heartbeat line, whose hdmi_connected() returns or raises.
LoopTop ==
  /\ pc = "loop_top"
  /\ \E d \in Ticks :
       /\ now + d <= MaxNow
       /\ now' = now + d
  /\ IF HeartbeatDue(now')
       THEN /\ last_heartbeat' = now'
            /\ calls' = Append(calls, "heartbeat")
            /\ pc' \in {"ext_check", "except"}
       ELSE /\ pc' = "ext_check"
            /\ UNCHANGED <<last_heartbeat, calls>>
  /\ UNCHANGED <<ret, exit_code, manage_fbcp, procs>>
  /\ UNCHANGED <<debounceVars, extVars, restartVars, audioHatVars>>
  /\ UNCHANGED <<lockVars, fnVars>>

\* Line 457: the guard of the external-manager recovery attempt.
ExtAttemptDue(pidofOk) ==
  /\ ~manage_fbcp
  /\ ~fbcp_running(procs, pidofOk)
  /\ (now - last_fbcp_service_attempt) >= fbcp_service_attempt_sec

FailuresNeverReset(failures, running) == failures + 1

\* Lines 465-471: the failure counter after an attempt, given what pidof then says.
FailuresAfter(failures, running) == IF running THEN 0 ELSE failures + 1

\* Line 469: the demotion test.
Demote(failures) == failures >= external_start_failure_threshold

\* Line 457: fbcp_running() of the recovery check finds the compositor up while
\* failures are counted.
SeenUp(pidofOk) ==
  ~manage_fbcp /\ fbcp_running(procs, pidofOk) /\ external_start_failures > 0

\* Lines 456-475: the external-manager recovery check.
ExtCheck ==
  /\ pc = "ext_check"
  /\ \E pidofOk1, started, pidofOk2 \in BOOLEAN :
       IF ExtAttemptDue(pidofOk1)
         THEN /\ started => FreePids(procs, {}) # {}
              /\ last_fbcp_service_attempt' = now
              /\ procs' = systemctl_start(procs, started)
              /\ external_start_failures' =
                   FailuresAfter(external_start_failures, fbcp_running(procs', pidofOk2))
              /\ failRun' = IF fbcp_running(procs', pidofOk2) THEN 0 ELSE failRun + 1
              /\ prevAttemptAt' = now
              /\ upSeen' = (upSeen /\ external_start_failures' # 0)
              /\ calls' = Append(calls, "systemctl_start")
              /\ IF ~fbcp_running(procs', pidofOk2) /\ Demote(external_start_failures')
                   THEN manage_fbcp' = TRUE /\ pc' = "ensure" /\ ret' = "fallback"
                   ELSE manage_fbcp' = manage_fbcp /\ pc' = "liveness" /\ ret' = ret
         ELSE /\ pc' = "liveness"
              /\ upSeen' = (upSeen \/ SeenUp(pidofOk1))
              /\ UNCHANGED <<ret, manage_fbcp, procs, calls>>
              /\ UNCHANGED <<external_start_failures, last_fbcp_service_attempt,
                             failRun, prevAttemptAt>>
  /\ UNCHANGED <<exit_code, now, last_heartbeat, debounceVars, restartVars, audioHatVars>>
  /\ UNCHANGED <<lockVars, fnVars>>

LivenessDueWhenDebounced(pidofOk) ==
  manage_fbcp /\ ~fbcp_running(procs, pidofOk) /\ stable_count >= debounce_polls

\* Line 478: the guard of the self-managed liveness restart.
LivenessDue(pidofOk) == manage_fbcp /\ ~fbcp_running(procs, pidofOk)

\* Lines 477-480: the self-managed liveness check.
Liveness ==
  /\ pc = "liveness"
  /\ \E pidofOk \in BOOLEAN :
       IF LivenessDue(pidofOk)
         THEN /\ CallRestart("liveness")
              /\ calls' = Append(calls, "restart_fbcp")
         ELSE /\ pc' = "poll"
              /\ UNCHANGED <<ret, calls>>
  /\ UNCHANGED <<exit_code, procs, mainVars, fed, failRun, prevAttemptAt, upSeen>>
  /\ UNCHANGED <<restartVars, audioHatVars>>
  /\ UNCHANGED <<lockVars, fnVars>>

DebounceNoReset(st, cnt, raw) ==
  IF Some(raw) = st THEN <<st, cnt + 1>> ELSE <<Some(raw), cnt + 1>>

\* Lines 483-487: the streak after a reading, as <<stable, stable_count>>.
Debounce(st, cnt, raw) ==
  IF Some(raw) = st THEN <<st, cnt + 1>> ELSE <<Some(raw), 1>>

AppliesEveryThird(st, cnt, last) == cnt = debounce_polls

\* Line 489: a debounced reading that differs from the applied state.
Applies(st, cnt, last) == cnt = debounce_polls /\ st # last

\* The last debounce_polls readings fed to the engine.
Feed(h, raw) ==
  IF Len(h) < debounce_polls THEN Append(h, raw) ELSE Append(Tail(h), raw)

\* Lines 482-489: poll the probe and feed the debounce engine; hdmi_connected()
\* returns a reading or raises (the legacy backend lets OSError through).
Poll ==
  /\ pc = "poll"
  /\ \/ /\ pc' = "except"
        /\ calls' = Append(calls, "hdmi_connected")
        /\ UNCHANGED debounceVars
     \/ \E raw \in BOOLEAN :
          /\ ~(Some(raw) = stable /\ stable_count >= MaxStreak)
          /\ stable' = Debounce(stable, stable_count, raw)[1]
          /\ stable_count' = Debounce(stable, stable_count, raw)[2]
          /\ fed' = Feed(fed, raw)
          /\ IF Applies(stable', stable_count', last_state)
               THEN pc' = "set_audio" /\ calls' = Append(calls, "hdmi_connected")
               ELSE pc' = "loop_top" /\ calls' = <<>>
          /\ UNCHANGED last_state
  /\ UNCHANGED <<ret, exit_code, manage_fbcp, now, last_heartbeat, procs>>
  /\ UNCHANGED <<extVars, restartVars, audioHatVars>>
  /\ UNCHANGED <<lockVars, fnVars>>


SetAudioCall(b) == IF b THEN "set_audio(True)" ELSE "set_audio(False)"
ToggleHatCall(b) == IF b THEN "toggle_hat(True)" ELSE "toggle_hat(False)"

\* Line 492: set_audio(stable).  set_audio swallows every failure of its steps.
SetAudio ==
  /\ pc = "set_audio"
  /\ audio' = stable
  /\ calls' = Append(calls, SetAudioCall(stable[1]))
  /\ pc' = "toggle_hat"
  /\ UNCHANGED <<ret, exit_code, procs, hat_loaded, hatReq>>
  /\ UNCHANGED <<mainVars, fed, failRun, prevAttemptAt, upSeen, restartVars>>
  /\ UNCHANGED <<lockVars, fnVars>>

\* toggle_hat(enable), lines 349-353: the module state after the call, when
\* modprobe did what it was asked (ran = TRUE) or exited without doing it.
toggle_hat(loaded, enable, ran) ==
  IF enable /\ ~loaded THEN (IF ran THEN TRUE ELSE loaded)
  ELSE IF ~enable /\ loaded THEN (IF ran THEN FALSE ELSE loaded)
  ELSE loaded

\* toggle_hat issues a modprobe command at all.
ToggleHatRuns(loaded, enable) == (enable /\ ~loaded) \/ (~enable /\ loaded)

\* Line 494: the argument of toggle_hat, `not stable`.
HatEnable(st) == ~st[1]

\* Line 497: the compositor restart of a transition is due.
TransitionRestartAlways == last_state # None
TransitionRestartFirstToo == manage_fbcp
TransitionRestartDue == manage_fbcp /\ last_state # None

\* The external commands the loop runs, and the timeout, in seconds, each is
\* run with, None for none: pidof (lines 94, 103, 366), systemctl (lines 137,
\* 461), amixer (lines 306-307), alsactl (line 278), tvservice (line 216) and
\* modprobe (lines 351 and 353, sp.call without a timeout).
TimeoutOf(cmd) ==
  CASE cmd = "pidof" -> Some(1)
    [] cmd = "systemctl" -> Some(2)
    [] cmd = "amixer" -> Some(1)
    [] cmd = "alsactl" -> Some(2)
    [] cmd = "tvservice" -> Some(3)
    [] cmd = "modprobe" -> None

\* A command that hangs is given up with TimeoutExpired when its timeout has
\* passed; run without a timeout, it keeps its caller waiting.
HangBlocks(cmd) == TimeoutOf(cmd) = None

\* Lines 494-499: toggle_hat(not stable), then the test for the restart.
\* sp.call raises when modprobe cannot be executed, and waits for a modprobe
\* that hangs.
ToggleHat ==
  /\ pc = "toggle_hat"
  /\ hatReq' = Some(HatEnable(stable))
  /\ \/ /\ ToggleHatRuns(hat_loaded, HatEnable(stable))
        /\ pc' = "except"
        /\ calls' = Append(calls, ToggleHatCall(HatEnable(stable)))
        /\ UNCHANGED <<ret, hat_loaded>>
     \/ /\ ToggleHatRuns(hat_loaded, HatEnable(stable))
        /\ HangBlocks("modprobe")
        /\ pc' = "blocked"
        /\ calls' = Append(calls, ToggleHatCall(HatEnable(stable)))
        /\ UNCHANGED <<ret, hat_loaded>>
     \/ \E ran \in BOOLEAN :
          /\ hat_loaded' = toggle_hat(hat_loaded, HatEnable(stable), ran)
          /\ IF TransitionRestartDue
               THEN /\ CallRestart("transition")
                    /\ calls' = calls \o <<ToggleHatCall(HatEnable(stable)), "restart_fbcp">>
               ELSE /\ pc' = "commit" /\ ret' = ret
                    /\ calls' = Append(calls, ToggleHatCall(HatEnable(stable)))
  /\ UNCHANGED <<exit_code, procs, audio>>
  /\ UNCHANGED <<mainVars, fed, failRun, prevAttemptAt, upSeen, restartVars>>
  /\ UNCHANGED <<lockVars, fnVars>>

\* Line 502: last_state = stable.
Commit ==
  /\ pc = "commit"
  /\ last_state' = stable
  /\ pc' = "loop_top"
  /\ calls' = <<>>
  /\ UNCHANGED <<ret, exit_code, manage_fbcp, now, last_heartbeat, stable, stable_count, fed>>
  /\ UNCHANGED <<procs, extVars, restartVars, audioHatVars>>
  /\ UNCHANGED <<lockVars, fnVars>>

\* Lines 503-505: the catch-all handler of the loop body.
Except ==
  /\ pc = "except"
  /\ pc' = "loop_top"
  /\ calls' = <<>>
  /\ UNCHANGED <<ret, exit_code, procs, mainVars, fed, failRun,
                 prevAttemptAt, upSeen, restartVars, audioHatVars>>
  /\ UNCHANGED <<lockVars, fnVars>>


\* ------------------------------------------------------------ process exit
ExitStatusZero(cause) == 0

\* The exit status of the interpreter: sys.exit(0) of a redundant instance
\* (line 55), SystemExit(0) of the signal handler (line 75), and 1 for an
\* exception that leaves the script (re-raised at line 517).
ExitStatus(cause) ==
  CASE cause = "redundant" -> 0
    [] cause = "signal" -> 0
    [] cause = "exception" -> 1

InheritsLockFdAlways == TRUE

\* Line 401: Popen is called with the default close_fds=True, and line 39 opens
\* the lock file close-on-exec: a spawned compositor does not inherit the
\* descriptor of the lock file.
InheritsLockFd == FALSE

\* The holder of the flock after instance i has ended: the kernel drops the lock
\* when the last descriptor of the open file description is closed.
LockAfterExit(owner, i, kidsAlive) ==
  IF owner = i /\ ~(kidsAlive /\ InheritsLockFd) THEN 0 ELSE owner

\* The modelled daemon (instance 1) ends: the kernel closes its descriptors;
\* the lock file stays on disk.
DaemonEnds(cause) ==
  /\ inst' = [inst EXCEPT ![1] = "exited"]
  /\ instExit' = [instExit EXCEPT ![1] = Some(ExitStatus(cause))]
  /\ instEnd' = [instEnd EXCEPT ![1] = cause]
  /\ lockOwner' = LockAfterExit(lockOwner, 1, LivePids(procs) # {})
  /\ UNCHANGED <<child, lockFile>>
  /\ UNCHANGED fnVars

\* ------------------------------------------------------------- restart_fbcp
\* Lines 359-383: stop the early-boot unit, enumerate the PIDs (any failure of
\* pidof gives the empty list) and send each SIGTERM.
RestartBegin ==
  /\ pc = "r_pidof"
  /\ \E stopOk, pidofOk \in BOOLEAN :
       /\ procs' = stop_fbcp_early(procs, stopOk)
       /\ pids' = fbcp_pids(procs', pidofOk)
  /\ stale' = LivePids(procs)
  /\ termed' = pids'
  /\ killed' = {}
  /\ alive' = {}
  /\ polls' = 0
  /\ pc' = "r_wait"
  /\ UNCHANGED <<ret, exit_code, calls, mainVars, fed, failRun, prevAttemptAt, upSeen>>
  /\ UNCHANGED audioHatVars
  /\ UNCHANGED <<lockVars, fnVars>>

\* Line 387: the enumerated PIDs still in the process table.
StillAlive(table, enumerated) == enumerated \cap LivePids(table)

AfterWaitNoKill(aliveNow, n) ==
  IF aliveNow = {} \/ n = GRACE_POLLS THEN "r_spawn" ELSE "r_wait"

AfterWaitKillsAtOnce(aliveNow, n) ==
  IF aliveNow = {} THEN "r_spawn" ELSE "r_sigkill"

\* Lines 386-391, the for/else: where the n-th pass of the wait loop leads.  The
\* loop breaks when nothing is alive; its else branch (the forced kill) is
\* entered after GRACE_POLLS passes without a break.
AfterWait(aliveNow, n) ==
  IF aliveNow = {} THEN "r_spawn"
  ELSE IF n = GRACE_POLLS THEN "r_sigkill" ELSE "r_wait"

\* Lines 386-390: one pass of the wait loop.
RestartWait ==
  /\ pc = "r_wait"
  /\ alive' = StillAlive(procs, pids)
  /\ polls' = IF alive' = {} THEN polls ELSE polls + 1
  /\ pc' = AfterWait(alive', polls + 1)
  /\ UNCHANGED <<ret, exit_code, procs, calls, mainVars, fed, failRun,
                 prevAttemptAt, upSeen, pids, stale, termed, killed, audioHatVars>>
  /\ UNCHANGED <<lockVars, fnVars>>

\* Lines 392-398: SIGKILL to the survivors of the last pass.
RestartSigkill ==
  /\ pc = "r_sigkill"
  /\ killed' = alive
  /\ pc' = "r_spawn"
  /\ UNCHANGED <<ret, exit_code, procs, calls, mainVars, fed, failRun,
                 prevAttemptAt, upSeen, pids, alive, polls, stale, termed, audioHatVars>>
  /\ UNCHANGED <<lockVars, fnVars>>

\* Where restart_fbcp() returns to.
ReturnPcBeforeCheck(caller) ==
  CASE caller = "startup" -> "loop_top"
    [] caller = "liveness" -> "ext_check"
    [] caller = "transition" -> "commit"
    [] OTHER -> "returned"

ReturnPc(caller) ==
  CASE caller = "startup" -> "loop_top"
    [] caller = "liveness" -> "poll"
    [] caller = "transition" -> "commit"
    [] OTHER -> "returned"

RaisePcUncaught(caller) ==
  CASE caller = "transition" -> "except"
    [] OTHER -> "crashed"

RaisePcSwallowed(caller) ==
  CASE caller = "startup" -> "crashed"
    [] caller = "liveness" -> "except"
    [] caller = "transition" -> "commit"
    [] OTHER -> "raised"

\* Where an exception raised inside restart_fbcp() lands: the loop's handler,
\* or, at startup, the top level (logged, re-raised, exit status 1).
RaisePc(caller) ==
  CASE caller = "startup" -> "crashed"
    [] caller \in {"liveness", "transition"} -> "except"
    [] OTHER -> "raised"

\* Lines 400-402: Popen of the fresh instance; Popen raises when the binary
\* cannot be executed.
RestartSpawn ==
  /\ pc = "r_spawn"
  /\ \/ /\ FreePids(procs, stale) # {}
        /\ procs' = Spawned(procs, NewPid(procs, stale), ExpectedArgv)
        /\ pc' = ReturnPc(ret)
        /\ UNCHANGED exit_code
     \/ /\ pc' = RaisePc(ret)
        /\ exit_code' = IF pc' = "crashed" THEN Some(ExitStatus("exception")) ELSE exit_code
        /\ UNCHANGED procs
  /\ ret' = "none"
  /\ pids' = {} /\ alive' = {} /\ polls' = 0
  /\ stale' = {} /\ termed' = {} /\ killed' = {}
  /\ UNCHANGED <<calls, mainVars, fed, failRun, prevAttemptAt, upSeen, audioHatVars>>
  /\ IF pc' = "crashed" THEN DaemonEnds("exception") ELSE UNCHANGED <<lockVars, fnVars>>

\* -------------------------------------------------------------- environment
RestartPcs == {"r_pidof", "r_wait", "r_sigkill", "r_spawn"}
Ended == pc \in {"exited", "crashed"}

\* The passes of the wait loop of restart_fbcp after which a signalled
\* compositor is seen to exit: before the first check, halfway through the
\* wait, and when the wait is over.
ExitPoints == {0, GRACE_POLLS \div 2, GRACE_POLLS}

\* A compositor process leaves the process table: it exits on a signal
\* restart_fbcp sent it, or something else kills it while the daemon sleeps.
ProcExit(p) ==
  /\ procs[p] # NoProc
  /\ \/ pc \in RestartPcs /\ p \in termed \cup killed /\ polls \in ExitPoints
     \/ pc = "loop_top"
  /\ procs' = [procs EXCEPT ![p] = NoProc]
  /\ UNCHANGED <<pc, ret, exit_code, calls, mainVars, fed, failRun,
                 prevAttemptAt, upSeen, restartVars, audioHatVars>>
  /\ UNCHANGED <<lockVars, fnVars>>

\* Lines 460-463: a "systemctl start" that ran into its 2 s timeout is given up
\* by the daemon, not by systemd: the start job of the attempt of the pass just
\* ended brings the compositor up while the daemon sleeps.
SystemdLateStart ==
  /\ pc = "loop_top"
  /\ ~manage_fbcp
  /\ prevAttemptAt = now
  /\ LivePids(procs) = {}
  /\ FreePids(procs, {}) # {}
  /\ procs' = Spawned(procs, NewPid(procs, {}), ExpectedArgv)
  /\ UNCHANGED <<pc, ret, exit_code, calls, mainVars, fed, failRun,
                 prevAttemptAt, upSeen, restartVars, audioHatVars>>
  /\ UNCHANGED <<lockVars, fnVars>>

\* The daemon is inside the try block of the `while True` loop, or in its handler.
InLoop ==
  \/ pc \in {"loop_top", "ext_check", "liveness", "poll", "set_audio", "toggle_hat",
             "blocked", "commit", "except"}
  \/ pc \in RestartPcs /\ ret \in {"liveness", "transition"}
  \/ pc = "ensure" /\ ret = "fallback"

LoopCatchesAll(exc) == TRUE

\* Line 503: `except Exception` catches what derives from Exception; SystemExit
\* does not.
LoopCatches(exc) == exc # "SystemExit"

\* Where the SystemExit(0) raised by the signal handler lands.
SignalPc == IF InLoop /\ pc # "except" /\ LoopCatches("SystemExit") THEN "except" ELSE "exited"

\* _handle_signal, lines 71-80: SIGTERM, SIGINT or SIGHUP raises SystemExit(0)
\* wherever the daemon is.  The process ends and its memory with it; what it
\* did to the system stays.
HandleSignal ==
  /\ ~Ended
  /\ pc' = SignalPc
  /\ IF pc' = "exited"
       THEN /\ exit_code' = Some(ExitStatus("signal"))
            /\ ret' = "none"
            /\ manage_fbcp' = TRUE
            /\ external_start_failures' = 0
            /\ now' = 0
            /\ last_fbcp_service_attempt' = 0
            /\ last_heartbeat' = 0
            /\ last_state' = None /\ stable' = None /\ stable_count' = 0
            /\ pids' = {} /\ alive' = {} /\ polls' = 0
            /\ stale' = {} /\ termed' = {} /\ killed' = {}
            /\ calls' = <<>> /\ fed' = <<>> /\ failRun' = 0 /\ prevAttemptAt' = -1 /\ upSeen' = FALSE
            /\ DaemonEnds("signal")
       ELSE /\ UNCHANGED <<ret, exit_code, calls, mainVars, fed, failRun, prevAttemptAt, upSeen>>
            /\ UNCHANGED restartVars
            /\ UNCHANGED <<lockVars, fnVars>>
  /\ UNCHANGED <<procs, audioHatVars>>

\* --------------------------------------------------------------------- Spec
Next ==
  \/ MainStart
  \/ StartupSelf
  \/ StartupExt
  \/ EnsureFbcpRunning
  \/ LoopTop
  \/ ExtCheck
  \/ Liveness
  \/ Poll
  \/ SetAudio
  \/ ToggleHat
  \/ Commit
  \/ Except
  \/ RestartBegin
  \/ RestartWait
  \/ RestartSigkill
  \/ RestartSpawn
  \/ \E p \in Pids : ProcExit(p)
  \/ SystemdLateStart
  \/ HandleSignal

Spec == Init /\ [][Next]_vars


\* ----------------------------------------------------------- singleton lock
\* Every launch of the script runs lines 37-55 before anything else.  An
\* instance is "idle" (not launched), "launched", "opened" (past line 39),
\* "running" (it holds the lock) or "exited".
FlockAlwaysGranted(owner) == TRUE

\* Line 41: fcntl.flock(fd, LOCK_EX | LOCK_NB) succeeds iff no other open file
\* description holds a lock on the file.
FlockGranted(owner) == owner = 0

\* The script is launched (again).
Launch(i) ==
  /\ inst[i] \in {"idle", "exited"}
  /\ inst' = [inst EXCEPT ![i] = "launched"]
  /\ instExit' = [instExit EXCEPT ![i] = None]
  /\ instEnd' = [instEnd EXCEPT ![i] = "none"]
  /\ UNCHANGED <<child, lockOwner, lockFile>>

\* Line 39: open(LOCK_FILE, "w") creates the file or truncates it.
OpenLock(i) ==
  /\ inst[i] = "launched"
  /\ inst' = [inst EXCEPT ![i] = "opened"]
  /\ lockFile' = 0
  /\ UNCHANGED <<instExit, instEnd, child, lockOwner>>

\* Lines 40-55: take the lock and write the PID, or close the file and exit 0.
AcquireLock(i) ==
  /\ inst[i] = "opened"
  /\ IF FlockGranted(lockOwner)
       THEN /\ lockOwner' = i
            /\ lockFile' = i
            /\ inst' = [inst EXCEPT ![i] = "running"]
            /\ UNCHANGED <<instExit, instEnd>>
       ELSE /\ inst' = [inst EXCEPT ![i] = "exited"]
            /\ instExit' = [instExit EXCEPT ![i] = Some(ExitStatus("redundant"))]
            /\ instEnd' = [instEnd EXCEPT ![i] = "redundant"]
            /\ UNCHANGED <<lockOwner, lockFile>>
  /\ UNCHANGED child

\* Lines 400-402: a running instance spawns a compositor with Popen.
SpawnChild(i) ==
  /\ inst[i] = "running"
  /\ ~child[i]
  /\ child' = [child EXCEPT ![i] = TRUE]
  /\ UNCHANGED <<inst, instExit, instEnd, lockOwner, lockFile>>

\* The compositor an instance spawned exits; a lock it kept open goes with it.
ChildExit(i) ==
  /\ child[i]
  /\ child' = [child EXCEPT ![i] = FALSE]
  /\ lockOwner' = IF lockOwner = i /\ inst[i] # "running" THEN 0 ELSE lockOwner
  /\ UNCHANGED <<inst, instExit, instEnd, lockFile>>

\* A running instance ends: on a signal (lines 71-75) or on an exception that
\* escapes main() (lines 510-517).
InstanceEnds(i) ==
  /\ inst[i] = "running"
  /\ \E cause \in {"signal", "exception"} :
       /\ inst' = [inst EXCEPT ![i] = "exited"]
       /\ instExit' = [instExit EXCEPT ![i] = Some(ExitStatus(cause))]
       /\ instEnd' = [instEnd EXCEPT ![i] = cause]
  /\ lockOwner' = LockAfterExit(lockOwner, i, child[i])
  /\ UNCHANGED <<child, lockFile>>

\* No instance has been launched.
NoInstances ==
  /\ inst = [i \in Insts |-> "idle"]
  /\ instExit = [i \in Insts |-> None]
  /\ instEnd = [i \in Insts |-> "none"]
  /\ child = [i \in Insts |-> FALSE]
  /\ lockOwner = 0
  /\ lockFile = 0

InitLock ==
  /\ InitDaemon
  /\ NoInstances
  /\ NoRuns

NextLock ==
  \/ \E i \in Insts : Launch(i) /\ UNCHANGED <<daemonVars, fnVars>>
  \/ \E i \in Insts : OpenLock(i) /\ UNCHANGED <<daemonVars, fnVars>>
  \/ \E i \in Insts : AcquireLock(i) /\ UNCHANGED <<daemonVars, fnVars>>
  \/ \E i \in Insts : SpawnChild(i) /\ UNCHANGED <<daemonVars, fnVars>>
  \/ \E i \in Insts : ChildExit(i) /\ UNCHANGED <<daemonVars, fnVars>>
  \/ \E i \in Insts : InstanceEnds(i) /\ UNCHANGED <<daemonVars, fnVars>>

SpecLock == InitLock /\ [][NextLock]_vars

\* ------------------------------------------------------ the debounce engine
\* The state in which a function of the script is run on its own: main() as
\* entered, no compositor, the joystick module not loaded, nothing launched.
InitAlone ==
  /\ InitDaemon
  /\ procs = [p \in Pids |-> NoProc]
  /\ ~hat_loaded
  /\ NoInstances

\* Lines 482-502 with no step failing: one pass feeds the reading to the
\* engine and, when the transition applies, ends with last_state = stable.
FeedReading ==
  /\ engine.at = "feeding"
  /\ engine.fedN < Len(engine.inputs)
  /\ LET raw == engine.inputs[engine.fedN + 1]
         d == Debounce(stable, stable_count, raw)
     IN /\ stable' = d[1]
        /\ stable_count' = d[2]
        /\ IF Applies(d[1], d[2], last_state)
             THEN /\ last_state' = d[1]
                  /\ engine' = [engine EXCEPT !.fedN = @ + 1,
                                              !.applied = Append(@, <<engine.fedN + 1, raw>>)]
             ELSE /\ last_state' = last_state
                  /\ engine' = [engine EXCEPT !.fedN = @ + 1]
  /\ UNCHANGED <<pc, ret, exit_code, manage_fbcp, now, last_heartbeat, procs, calls, fed>>
  /\ UNCHANGED <<extVars, restartVars, audioHatVars, lockVars>>
  /\ UNCHANGED <<mixer, matcher, probe, loader, detector>>

\* All the sequences of n readings.
Readings(n) == [1..n -> BOOLEAN]

InitDebounce ==
  /\ InitAlone
  /\ \E seq \in Readings(MaxReadings) :
       engine = [at |-> "feeding", inputs |-> seq, fedN |-> 0, applied |-> <<>>]
  /\ mixer = Idle /\ matcher = Idle /\ probe = Idle
  /\ loader = Idle /\ detector = Idle

NextDebounce == FeedReading

SpecDebounce == InitDebounce /\ [][NextDebounce]_vars

\* ---------------------------------------------------- set_audio and _amixer
\* Text is a sequence of characters.
HDMI_CARD == <<"0">>
HDMI_VOL_ID == <<"1">>
HDMI_SW_ID == <<"2">>
HP_CARD == <<"1">>
HP_VOL_ID == <<"1">>
HP_SW_ID == <<"2">>
DESIRED_VOL == <<"2", "5", "0">>
\* The passes of the retry loop of _amixer, range(3).
AMIXER_TRIES == 3

Digits == {"0", "1", "2", "3", "4", "5", "6", "7", "8", "9"}

\* str.isdigit(): a non-empty text of digits.
IsDigit(text) == text # <<>> /\ \A i \in 1..Len(text) : text[i] \in Digits

\* `needle in hay` on Python strings.
Contains(hay, needle) ==
  \E i \in 0..(Len(hay) - Len(needle)) : SubSeq(hay, i + 1, i + Len(needle)) = needle

ValuesEq == <<"v", "a", "l", "u", "e", "s", "=">>

\* What `amixer cget` prints for a control whose value is v: the line of the
\* value, ": values=v", after the line describing the control when hdr is set
\* ("; type=...,values=1,..." gives the number of values of the control).
Readback(hdr, v) ==
  (IF hdr THEN <<";">> \o ValuesEq \o <<"1", ",">> ELSE <<>>) \o <<":">> \o ValuesEq \o v

\* What the mixer prints for a control in the symbolic state v.
Bracketed(v) == <<"[">> \o v \o <<"]">>

\* Lines 318-323: the readback shows the intended value.
Matches(val, out) ==
  IF IsDigit(val) THEN Contains(out, ValuesEq \o val) ELSE Contains(out, Bracketed(val))

\* The exception classes the external commands and file operations raise.
Exceptions == {"TimeoutExpired", "FileNotFoundError", "PermissionError", "OSError"}

CaughtNamedOnly(step, exc) ==
  CASE step = "amixer" -> exc \in {"TimeoutExpired", "FileNotFoundError"}
    [] step = "copy" -> exc \in {"PermissionError", "FileNotFoundError"}
    [] step = "alsactl" -> exc \in {"TimeoutExpired", "FileNotFoundError"}
    [] step = "runcommand" -> exc \in {"PermissionError"}

\* The except clauses around each step (lines 308-317, 273-276, 279-284,
\* 296-299): the named classes, then `except Exception`.
Caught(step, exc) == CaughtNamedOnly(step, exc) \/ exc \in Exceptions

\* Lines 308-317: what the handlers of _amixer do after the exception.
AmixerOn(exc) == IF exc = "FileNotFoundError" THEN "return" ELSE "continue"

\* The values the control can read back as, and the results of one pass of the
\* retry loop: an exception of the write or of the readback, or the readback.
ReadValues == {<<"0">>, <<"1">>, <<"2", "5">>, DESIRED_VOL}
Symbols == {<<"o", "n">>, <<"o", "f", "f">>}
Readbacks ==
  {Readback(h, v) : h \in BOOLEAN, v \in ReadValues} \cup {Bracketed(v) : v \in Symbols}
AttemptResults ==
  {[kind |-> "raise", exc |-> e] : e \in Exceptions \ {"PermissionError"}}
    \cup {[kind |-> "readback", out |-> o] : o \in Readbacks}

\* set_audio, lines 329-338: the four _amixer calls, as <<card, numid, value>>.
AmixerCalls(hdmi) ==
  IF hdmi
    THEN << <<HDMI_CARD, HDMI_SW_ID, <<"1">> >>, <<HDMI_CARD, HDMI_VOL_ID, DESIRED_VOL>>,
            <<HP_CARD, HP_SW_ID, <<"0">> >>, <<HP_CARD, HP_VOL_ID, <<"0">> >> >>
    ELSE << <<HP_CARD, HP_SW_ID, <<"1">> >>, <<HP_CARD, HP_VOL_ID, DESIRED_VOL>>,
            <<HDMI_CARD, HDMI_SW_ID, <<"0">> >>, <<HDMI_CARD, HDMI_VOL_ID, <<"0">> >> >>

\* The destinations of _swap_asound, line 268: ASOUND_DEFAULT, ASOUND_USER.
AsoundDests == <<"/etc/asound.conf", "~pi/.asoundrc">>

\* _amixer, lines 304-325: one pass of the retry loop: the write, the readback
\* and the test of the readback.
AmixerAttempt ==
  /\ mixer.at = "amixer"
  /\ mixer.tries < AMIXER_TRIES
  /\ \E res \in AttemptResults :
       LET after == IF res.kind = "readback"
                      THEN (IF Matches(mixer.value, res.out) THEN "matched" ELSE "continue")
                      ELSE IF ~Caught("amixer", res.exc) THEN "raise"
                      ELSE IF AmixerOn(res.exc) = "return" THEN "not_found" ELSE "continue"
           n == mixer.tries + 1
       IN mixer' = [mixer EXCEPT
            !.tries = n,
            !.outs = Append(@, res),
            !.result = IF after = "continue"
                         THEN (IF n = AMIXER_TRIES THEN "exhausted" ELSE "none")
                         ELSE after,
            !.at = IF after = "raise" THEN "raised"
                   ELSE IF after = "continue" /\ n < AMIXER_TRIES THEN "amixer"
                   ELSE "amixer_done"]
  /\ UNCHANGED <<daemonVars, lockVars, engine, matcher, probe, loader, detector>>

\* _amixer returns: to its caller, or, in set_audio (lines 329-339), to the next
\* _amixer call and after the fourth to _swap_asound.
AmixerReturn ==
  /\ mixer.at = "amixer_done"
  /\ IF mixer.entry = "_amixer"
       THEN mixer' = [mixer EXCEPT !.at = "returned"]
       ELSE LET done == [mixer EXCEPT
                  !.steps = Append(@, <<"_amixer">> \o AmixerCalls(mixer.to_hdmi)[mixer.call]),
                  !.failed = IF mixer.result = "matched" THEN @ ELSE @ \cup {<<"_amixer", mixer.call>>}]
            IN IF mixer.call < Len(AmixerCalls(mixer.to_hdmi))
                 THEN mixer' = [done EXCEPT
                        !.call = @ + 1,
                        !.value = AmixerCalls(mixer.to_hdmi)[mixer.call + 1][3],
                        !.tries = 0, !.outs = <<>>, !.result = "none",
                        !.at = "amixer"]
                 ELSE mixer' = [done EXCEPT
                        !.value = <<>>, !.tries = 0, !.outs = <<>>, !.result = "none",
                        !.at = "ensure_snippets"]
  /\ UNCHANGED <<daemonVars, lockVars, engine, matcher, probe, loader, detector>>

\* ------------------------------------------------------------- _swap_asound
\* A file is None when it is absent, else Some(content).  The content of an
\* audio-routing file is one value; the content of runcommand.cfg is a text, a
\* sequence of pieces: a key with its "=" sign, a value, a line terminator.
SnippetHdmi == "defaults.pcm.card 0"
SnippetHp == "defaults.pcm.card 1"
\* Lines 249-250: the hardcoded fallback content of each profile.
default_hdmi == "defaults.pcm.card 0 defaults.ctl.card 0"
default_hp == "defaults.pcm.card 1 defaults.ctl.card 1"
DefaultOf(to_hdmi) == IF to_hdmi THEN default_hdmi ELSE default_hp
\* Lines 255 and 261: the file under /home/pi the fallback of a profile is
\* written to, as found afterwards.
FallbackFile(files, to_hdmi) ==
  IF (IF to_hdmi THEN "hdmi" ELSE "hp") \in files.fallbacks THEN Some(DefaultOf(to_hdmi)) ELSE None
\* What a copy that fails while it writes leaves in the destination.
Partial == "truncated"
AsoundContents == {SnippetHdmi, SnippetHp, "pcm.!default plug"}

Terminators == {"\n", "\r\n"}
AudioDeviceKey == "audio_device="

\* str.splitlines(): the lines of a text, without their terminators; a
\* terminator at the end of the text opens no further line.
RECURSIVE splitlines(_)
splitlines(text) ==
  IF text = <<>> THEN <<>>
  ELSE IF \A i \in 1..Len(text) : text[i] \notin Terminators THEN <<text>>
  ELSE LET i == CHOOSE k \in 1..Len(text) :
                  text[k] \in Terminators /\ \A j \in 1..(k - 1) : text[j] \notin Terminators
       IN <<SubSeq(text, 1, i - 1)>> \o splitlines(SubSeq(text, i + 1, Len(text)))

\* sep.join(lines).
RECURSIVE join(_, _)
join(sep, lines) ==
  IF lines = <<>> THEN <<>>
  ELSE IF Len(lines) = 1 THEN lines[1]
  ELSE lines[1] \o <<sep>> \o join(sep, Tail(lines))

\* line.startswith(prefix), for a prefix that is one piece.
startswith(line, prefix) == line # <<>> /\ line[1] = prefix

\* Line 287: the logical device name of the profile.
Desired(to_hdmi) == IF to_hdmi THEN "hdmi" ELSE "local"

\* Lines 289-295: the text written to runcommand.cfg, from the file as found
\* (a missing file reads as no lines).
Rewritten(cfg, to_hdmi) ==
  LET lines == IF cfg = None THEN <<>> ELSE splitlines(cfg[1])
      kept == SelectSeq(lines, LAMBDA l : ~startswith(l, AudioDeviceKey))
  IN join("\n", Append(kept, <<AudioDeviceKey, Desired(to_hdmi)>>)) \o <<"\n">>

\* Lines 242-243 and 267: the snippet of the profile, ASOUND_HDMI or ASOUND_HP.
Snippet(files, to_hdmi) == IF to_hdmi THEN files.hdmi ELSE files.hp

CopiesAlways(dst, src) == TRUE

\* Line 271: the destination is absent or differs from the snippet.
NeedsCopy(dst, src) == dst = None \/ dst # src

\* What the environment does to a step: nothing, or it makes it raise.
CopyFaults == {"none", "PermissionError", "FileNotFoundError", "OSError"}
CfgFaults == {"none", "PermissionError", "OSError"}
FaultsAt(step, all) == IF step \in mixer.faults THEN all ELSE {"none"}

\* Lines 269-272: the exception the copy to one destination raises: the fault,
\* or FileNotFoundError of read_bytes / shutil.copy when the snippet is missing.
CopyRaises(src, fault) ==
  IF fault # "none" THEN fault ELSE IF src = None THEN "FileNotFoundError" ELSE "none"

\* Lines 269-272: shutil.copy opens the destination and writes to it.
CopyWrites(dst, src, fault) ==
  src # None /\ NeedsCopy(dst, src) /\ CopyRaises(src, fault) \in {"none", "OSError"}

\* Lines 269-272: the destination after the step; OSError is a copy that fails
\* while it writes.
CopyResult(dst, src, fault) ==
  IF ~CopyWrites(dst, src, fault) THEN dst
  ELSE IF fault = "none" THEN src ELSE Some(Partial)

\* _ensure_snippets, lines 247-263: for a missing snippet a fallback is written
\* to /home/pi/.asound.<profile>.conf, and a failure of that write is swallowed.
EnsureSnippets ==
  /\ mixer.at = "ensure_snippets"
  /\ LET missing == {pr \in {"hdmi", "hp"} : mixer.files[pr] = None}
     IN \E writeOk \in (IF missing = {} THEN {TRUE} ELSE BOOLEAN) :
          mixer' = [mixer EXCEPT !.steps = Append(@, <<"_ensure_snippets">>),
                                 !.files.fallbacks = IF writeOk THEN @ \cup missing ELSE @,
                                 !.dst = 1,
                                 !.at = "copy"]
  /\ UNCHANGED <<daemonVars, lockVars, engine, matcher, probe, loader, detector>>

\* Where a step of _swap_asound leads: on, or out of set_audio with the
\* exception when no except clause catches it.
AfterStep(step, res, next) ==
  IF res \in Exceptions /\ ~Caught(step, res) THEN "raised" ELSE next

\* _swap_asound, lines 268-276: the copy to one destination.
CopyAsound ==
  /\ mixer.at = "copy"
  /\ \E fault \in FaultsAt("copy", CopyFaults) :
       LET dst == mixer.files.dests[mixer.dst]
           src == Snippet(mixer.files, mixer.to_hdmi)
           exc == CopyRaises(src, fault)
       IN mixer' = [mixer EXCEPT
            !.steps = Append(@, <<"copy", AsoundDests[mixer.dst]>>),
            !.failed = IF exc # "none" THEN @ \cup {<<"copy", mixer.dst>>} ELSE @,
            !.files.dests[mixer.dst] = CopyResult(dst, src, fault),
            !.copies = Append(@, [before |-> dst, src |-> src, exc |-> exc,
                                  wrote |-> CopyWrites(dst, src, fault),
                                  after |-> CopyResult(dst, src, fault)]),
            !.dst = IF mixer.dst < Len(AsoundDests) THEN @ + 1 ELSE @,
            !.at = AfterStep("copy", exc,
                             IF mixer.dst < Len(AsoundDests) THEN "copy" ELSE "alsactl")]
  /\ UNCHANGED <<daemonVars, lockVars, engine, matcher, probe, loader, detector>>

\* _swap_asound, lines 277-284: alsactl restore.
AlsactlRestore ==
  /\ mixer.at = "alsactl"
  /\ \E res \in FaultsAt("alsactl", {"none", "TimeoutExpired", "FileNotFoundError", "OSError"}) :
       mixer' = [mixer EXCEPT
         !.steps = Append(@, <<"alsactl restore">>),
         !.failed = IF res \in Exceptions THEN @ \cup {<<"alsactl", 1>>} ELSE @,
         !.at = AfterStep("alsactl", res, "runcommand")]
  /\ UNCHANGED <<daemonVars, lockVars, engine, matcher, probe, loader, detector>>

\* Lines 289-295: runcommand.cfg after the step.  read_text raises
\* PermissionError on a file it may not read and write_text on one it may not
\* open; write_text opens the file with mode "w", which empties it, and an
\* OSError after that (a full disk) leaves it empty.
CfgResult(cfg, to_hdmi, fault) ==
  CASE fault = "none" -> Some(Rewritten(cfg, to_hdmi))
    [] fault = "PermissionError" -> cfg
    [] fault = "OSError" -> Some(<<>>)

\* _swap_asound, lines 286-299: the audio_device key of runcommand.cfg.
RuncommandOverride ==
  /\ mixer.at = "runcommand"
  /\ \E fault \in FaultsAt("runcommand", CfgFaults) :
       mixer' = [mixer EXCEPT
         !.steps = Append(@, <<"runcommand.cfg">>),
         !.failed = IF fault \in Exceptions THEN @ \cup {<<"runcommand", 1>>} ELSE @,
         !.files.cfg = CfgResult(mixer.files.cfg, mixer.to_hdmi, fault),
         !.cfgRun = Some([before |-> mixer.files.cfg, exc |-> fault,
                          after |-> CfgResult(mixer.files.cfg, mixer.to_hdmi, fault)]),
         !.at = AfterStep("runcommand", fault, "returned")]
  /\ UNCHANGED <<daemonVars, lockVars, engine, matcher, probe, loader, detector>>

\* The steps of _swap_asound the environment can make fail.
SwapSteps == {"copy", "alsactl", "runcommand"}

\* The files of a system whose audio has not been routed yet, and of one routed
\* to HDMI.
FreshFiles ==
  [hdmi |-> Some(SnippetHdmi), hp |-> Some(SnippetHp), dests |-> <<None, None>>,
   cfg |-> None, fallbacks |-> {}]
RoutedFiles ==
  [FreshFiles EXCEPT !.dests = <<Some(SnippetHdmi), Some(SnippetHdmi)>>,
                     !.cfg = Some(<<AudioDeviceKey, "hdmi", "\n">>)]

\* A call of _amixer with the value val.
AmixerCalled(val) ==
  [at |-> "amixer", entry |-> "_amixer", to_hdmi |-> FALSE, call |-> 0, value |-> val,
   tries |-> 0, outs |-> <<>>, result |-> "none", steps |-> <<>>, failed |-> {}, dst |-> 0,
   files |-> FreshFiles, faults |-> SwapSteps, round |-> 1, copies |-> <<>>,
   cfgRun |-> None, prev |-> None]

\* A call of set_audio(hdmi), at its first _amixer call.
SetAudioCalled(hdmi) ==
  [AmixerCalled(AmixerCalls(hdmi)[1][3]) EXCEPT !.entry = "set_audio", !.to_hdmi = hdmi, !.call = 1]

InitAudio ==
  /\ InitAlone
  /\ \/ \E val \in ReadValues \cup Symbols : mixer = AmixerCalled(val)
     \/ \E hdmi \in BOOLEAN, f \in {FreshFiles, RoutedFiles} :
          mixer = [SetAudioCalled(hdmi) EXCEPT !.files = f]
  /\ engine = Idle /\ matcher = Idle /\ probe = Idle
  /\ loader = Idle /\ detector = Idle

NextAudio ==
  \/ AmixerAttempt
  \/ AmixerReturn
  \/ EnsureSnippets
  \/ CopyAsound
  \/ AlsactlRestore
  \/ RuncommandOverride

SpecAudio == InitAudio /\ [][NextAudio]_vars

\* A call of _swap_asound(hdmi) with the files as given; the environment makes
\* the steps in `faults` fail, or not.
SwapCalled(hdmi, files, faults) ==
  [AmixerCalled(<<>>) EXCEPT !.at = "ensure_snippets", !.entry = "_swap_asound",
                             !.to_hdmi = hdmi, !.files = files, !.faults = faults]

\* Line 339: _swap_asound is called again, for the same profile or the other.
SwapAgain ==
  /\ mixer.at = "returned"
  /\ mixer.entry = "_swap_asound"
  /\ mixer.round < MaxRoutes
  /\ \E hdmi \in BOOLEAN :
       mixer' = [mixer EXCEPT
         !.to_hdmi = hdmi,
         !.round = @ + 1,
         !.prev = Some([to_hdmi |-> mixer.to_hdmi, copies |-> mixer.copies,
                        cfgRun |-> mixer.cfgRun]),
         !.copies = <<>>, !.cfgRun = None, !.steps = <<>>, !.failed = {}, !.dst = 0,
         !.at = "ensure_snippets"]
  /\ UNCHANGED <<daemonVars, lockVars, engine, matcher, probe, loader, detector>>

\* The audio-routing files _swap_asound can find: each snippet there or
\* missing, each destination absent or with some content.
AsoundFiles ==
  {[FreshFiles EXCEPT !.hdmi = h, !.hp = p, !.dests = <<a, b>>] :
     h \in {None, Some(SnippetHdmi)}, p \in {None, Some(SnippetHp)},
     a \in {None} \cup {Some(x) : x \in AsoundContents},
     b \in {None} \cup {Some(x) : x \in AsoundContents}}

\* The lines runcommand.cfg can hold, and its texts: up to MaxLines lines with
\* one kind of terminator, with or without one after the last line.
CfgLines ==
  {<<AudioDeviceKey, "hdmi">>, <<AudioDeviceKey, "local">>, <<"use_art=", "1">>,
   <<"#", AudioDeviceKey, "hdmi">>}
CfgTexts ==
  UNION {{join(t, ls) \o (IF last THEN <<t>> ELSE <<>>) :
            ls \in [1..n -> CfgLines], t \in Terminators, last \in BOOLEAN} : n \in 0..MaxLines}
CfgFiles == {[RoutedFiles EXCEPT !.cfg = c] : c \in {None} \cup {Some(t) : t \in CfgTexts}}

InitSwap ==
  /\ InitAlone
  /\ \E hdmi \in BOOLEAN :
       \/ \E f \in AsoundFiles : mixer = SwapCalled(hdmi, f, {"copy"})
       \/ \E f \in CfgFiles : mixer = SwapCalled(hdmi, f, {"runcommand"})
  /\ engine = Idle /\ matcher = Idle /\ probe = Idle
  /\ loader = Idle /\ detector = Idle

NextSwap ==
  \/ EnsureSnippets
  \/ CopyAsound
  \/ AlsactlRestore
  \/ RuncommandOverride
  \/ SwapAgain

SpecSwap == InitSwap /\ [][NextSwap]_vars

\* ----------------------------------------------------- fbcp_cmdline_matches
\* Argument vectors a process named fbcp-ili9341 can have been started with.
Swap12(argv) == [k \in 1..Len(argv) |->
                   IF k \in {2, 3} THEN argv[k + 2] ELSE IF k \in {4, 5} THEN argv[k - 2] ELSE argv[k]]
SampleArgvs ==
  { ExpectedArgv,
    <<FbcpSymlink>> \o FBCP_ARGS,
    <<"/opt/fbcp/fbcp-ili9341">> \o FBCP_ARGS,
    StaleArgv,
    Swap12(ExpectedArgv),
    ExpectedArgv \o <<"-v">>,
    ExpectedArgv \o <<"">> }

\* fbcp_cmdline_matches, lines 122-132: one pass of the loop over the PIDs of
\* _fbcp_pids(), which is empty when pidof fails.
CmdlineScan ==
  /\ matcher.at = "scan"
  /\ LET n == IF matcher.pidof_ok THEN Len(matcher.cmdlines) ELSE 0
     IN IF matcher.i >= n
          THEN matcher' = [matcher EXCEPT !.at = "done", !.result = FALSE]
          ELSE IF CmdMatches(proc_cmdline(matcher.cmdlines[matcher.i + 1],
                                          matcher.readable[matcher.i + 1]))
                 THEN matcher' = [matcher EXCEPT !.at = "done", !.result = TRUE, !.i = @ + 1]
                 ELSE matcher' = [matcher EXCEPT !.i = @ + 1]
  /\ UNCHANGED <<daemonVars, lockVars, engine, mixer, probe, loader, detector>>

InitCmdline ==
  /\ InitAlone
  /\ \E n \in 0..MaxProcs :
       \E argvs \in [1..n -> SampleArgvs], canRead \in [1..n -> BOOLEAN], ok \in BOOLEAN :
         matcher = [at |-> "scan", cmdlines |-> argvs, readable |-> canRead,
                    pidof_ok |-> ok, i |-> 0, result |-> FALSE]
  /\ engine = Idle /\ mixer = Idle /\ probe = Idle
  /\ loader = Idle /\ detector = Idle

NextCmdline == CmdlineScan

SpecCmdline == InitCmdline /\ [][NextCmdline]_vars

\* ----------------------------------------------------------- hdmi_connected
\* A status file /sys/class/drm/card*-HDMI-A-*/status: there or not, readable
\* or not, and its text, a sequence of words and white space.
Whitespace == {" ", "\n", "\t"}
Connectors == 1..MaxConn
NoFile == [exists |-> FALSE, canRead |-> FALSE, text |-> <<>>]
StatusFile(ok, t) == [exists |-> TRUE, canRead |-> ok, text |-> t]
StatusTexts ==
  {<<"connected", "\n">>, <<"disconnected", "\n">>, <<"unknown", "\n">>, <<"connected">>, <<>>}
StatusFiles == {NoFile, StatusFile(FALSE, <<>>)} \cup {StatusFile(TRUE, t) : t \in StatusTexts}

\* Line 217: the smallest dump that counts as an EDID block, in bytes.
EdidMinBytes == 128

\* What the tvservice query of the legacy backend comes to: an exit status and
\* the size of the dump it left in the temporary file, or an exception of
\* _run: a timeout, no such binary, or another OSError.
Dumped(rc, size) == [exc |-> "none", rc |-> rc, size |-> size]
QueryRaises(exc) == [exc |-> exc, rc |-> -1, size |-> 0]
TvserviceOutcomes ==
  {Dumped(rc, size) : rc \in {0, 1}, size \in {0, EdidMinBytes - 1, EdidMinBytes, 2 * EdidMinBytes}}
    \cup {QueryRaises(e) : e \in {"TimeoutExpired", "FileNotFoundError", "OSError"}}

LegacyPresentAnySize(q) == q.exc = "none" /\ q.rc = 0

\* Line 217: the utility exited with status 0 and the dump is large enough.
LegacyPresent(q) == q.exc = "none" /\ q.rc = 0 /\ q.size >= EdidMinBytes

\* Lines 219-222: the exceptions of the query that _legacy_edid_present handles.
LegacyCatches(q) == q.exc \in {"TimeoutExpired", "FileNotFoundError"}

\* str.strip(): the text without its leading and trailing white space.
RECURSIVE Strip(_)
Strip(t) ==
  IF t = <<>> THEN t
  ELSE IF t[1] \in Whitespace THEN Strip(Tail(t))
  ELSE IF t[Len(t)] \in Whitespace THEN Strip(SubSeq(t, 1, Len(t) - 1))
  ELSE t

\* glob("/sys/class/drm/card*-HDMI-A-*/status").
glob(files) == {c \in Connectors : files[c].exists}

\* Lines 200-206: the test _kms_edid_present makes on one status file.
ReadsConnected(f) == f.canRead /\ Strip(f.text) = <<"connected">>

UsesKmsWhenConnected(files) == \E c \in glob(files) : ReadsConnected(files[c])

\* Line 228: the KMS backend is used when the glob finds any status file.
UsesKms(files) == glob(files) # {}

\* hdmi_connected, lines 226-230: the choice of the backend.
HdmiGlob ==
  /\ probe.at = "glob"
  /\ IF UsesKms(probe.files)
       THEN probe' = [probe EXCEPT !.at = "kms", !.backends = @ \cup {"kms"}]
       ELSE probe' = [probe EXCEPT !.at = "legacy"]
  /\ UNCHANGED <<daemonVars, lockVars, engine, mixer, matcher, loader, detector>>

\* The status files after the i-th, in the order of the glob.
Later(files, i) == {c \in glob(files) : c > i}

\* _kms_edid_present, lines 198-207: one pass of the loop over the status files.
KmsRead ==
  /\ probe.at = "kms"
  /\ IF Later(probe.files, probe.i) = {}
       THEN probe' = [probe EXCEPT !.at = "done", !.result = FALSE]
       ELSE LET c == CHOOSE x \in Later(probe.files, probe.i) :
                       \A y \in Later(probe.files, probe.i) : x <= y
            IN IF ReadsConnected(probe.files[c])
                 THEN probe' = [probe EXCEPT !.at = "done", !.result = TRUE, !.i = c]
                 ELSE probe' = [probe EXCEPT !.i = c]
  /\ UNCHANGED <<daemonVars, lockVars, engine, mixer, matcher, loader, detector>>

\* _legacy_edid_present, lines 210-223: the tvservice query.
LegacyQuery ==
  /\ probe.at = "legacy"
  /\ probe' = [probe EXCEPT
       !.backends = @ \cup {"legacy"},
       !.result = LegacyPresent(probe.tvservice),
       !.at = IF probe.tvservice.exc = "none" \/ LegacyCatches(probe.tvservice)
                THEN "done" ELSE "raised"]
  /\ UNCHANGED <<daemonVars, lockVars, engine, mixer, matcher, loader, detector>>

InitProbe ==
  /\ InitAlone
  /\ \E files \in [Connectors -> StatusFiles], tv \in TvserviceOutcomes :
       probe = [at |-> "glob", files |-> files, tvservice |-> tv, i |-> 0,
                result |-> FALSE, backends |-> {}]
  /\ engine = Idle /\ mixer = Idle /\ matcher = Idle
  /\ loader = Idle /\ detector = Idle

NextProbe ==
  \/ HdmiGlob
  \/ KmsRead
  \/ LegacyQuery

SpecProbe == InitProbe /\ [][NextProbe]_vars

\* --------------------------------------------------------------- toggle_hat
ModprobeAlways(loaded, enable) == IF enable THEN "modprobe" ELSE "modprobe -r"

\* Lines 350-353: the module-loader command toggle_hat issues, "none" for none.
Modprobe(loaded, enable) ==
  IF enable /\ ~loaded THEN "modprobe"
  ELSE IF ~enable /\ loaded THEN "modprobe -r"
  ELSE "none"

\* toggle_hat(enable), lines 349-353, called with either argument; modprobe does
\* what it is asked (ran) or exits without doing it.
HatCall ==
  /\ loader.at = "calling"
  /\ Len(loader.calls) < MaxCalls
  /\ \E enable \in BOOLEAN :
       \E ran \in (IF Modprobe(hat_loaded, enable) = "none" THEN {TRUE} ELSE BOOLEAN) :
         /\ hat_loaded' = toggle_hat(hat_loaded, enable, ran)
         /\ loader' = [loader EXCEPT !.calls =
              Append(@, [enable |-> enable, loaded |-> hat_loaded,
                         cmd |-> Modprobe(hat_loaded, enable), ran |-> ran])]
  /\ UNCHANGED <<pc, ret, exit_code, calls, mainVars, fed, failRun, prevAttemptAt, upSeen>>
  /\ UNCHANGED <<restartVars, procs, audio, hatReq, lockVars>>
  /\ UNCHANGED <<engine, mixer, matcher, probe, detector>>

InitHat ==
  /\ InitDaemon
  /\ procs = [p \in Pids |-> NoProc]
  /\ NoInstances
  /\ loader = [at |-> "calling", calls |-> <<>>]
  /\ engine = Idle /\ mixer = Idle /\ matcher = Idle /\ probe = Idle /\ detector = Idle

NextHat == HatCall

SpecHat == InitHat /\ [][NextHat]_vars

\* ------------------------------------------- _external_fbcp_manager_present
\* Lines 150-154: the directories searched for fbcp-ili9341.service.
UnitDirs == <<"/etc/systemd/system", "/lib/systemd/system", "/usr/lib/systemd/system">>

\* Values of GBZ_EXTERNAL_FBCP; an unset variable reads as the empty text.
OverrideValues ==
  {<<>>, <<"1">>, <<" ", "1", "\n">>, <<"0">>, <<"t", "r", "u", "e">>}

\* What a systemctl query comes to: an exit status, or an exception of _run.
Exit(rc) == [exc |-> "none", rc |-> rc]
Raises(exc) == [exc |-> exc, rc |-> -1]
SystemctlOutcomes ==
  {Exit(0), Exit(1), Exit(3), Raises("TimeoutExpired"), Raises("FileNotFoundError")}

ReportsOnAnyExit(r) == r.exc = "none"

\* Lines 158-159 and 164-165: the query returned, with exit status 0.
Reports(r) == r.exc = "none" /\ r.rc = 0

\* Line 147: the override is in force.
OverrideSet(env) == Strip(env) = <<"1">>

\* Lines 147-148: the test of the environment override.
DetectOverride ==
  /\ detector.at = "env"
  /\ IF OverrideSet(detector.env)
       THEN detector' = [detector EXCEPT !.at = "done", !.result = TRUE]
       ELSE detector' = [detector EXCEPT !.at = "dirs", !.i = 1]
  /\ UNCHANGED <<daemonVars, lockVars, engine, mixer, matcher, probe, loader>>

\* Lines 150-170: one pass of the loop over the unit directories, and the
\* return after the last.
DetectUnit ==
  /\ detector.at = "dirs"
  /\ IF detector.i > Len(UnitDirs)
       THEN detector' = [detector EXCEPT !.at = "done", !.result = FALSE]
       ELSE IF ~detector.units[detector.i]
         THEN detector' = [detector EXCEPT !.i = @ + 1,
                                           !.consulted = @ \cup {"unit file"}]
       ELSE IF Reports(detector.is_enabled)
         THEN detector' = [detector EXCEPT !.at = "done", !.result = TRUE,
                                           !.consulted = @ \cup {"unit file", "is-enabled"}]
       ELSE IF Reports(detector.is_active)
         THEN detector' = [detector EXCEPT
                !.at = "done", !.result = TRUE,
                !.consulted = @ \cup {"unit file", "is-enabled", "is-active"}]
       ELSE detector' = [detector EXCEPT
                !.i = @ + 1,
                !.consulted = @ \cup {"unit file", "is-enabled", "is-active"}]
  /\ UNCHANGED <<daemonVars, lockVars, engine, mixer, matcher, probe, loader>>

InitDetect ==
  /\ InitAlone
  /\ \E env \in OverrideValues, units \in [1..Len(UnitDirs) -> BOOLEAN],
        en \in SystemctlOutcomes, ac \in SystemctlOutcomes :
       detector = [at |-> "env", env |-> env, units |-> units, is_enabled |-> en,
                   is_active |-> ac, i |-> 0, result |-> FALSE, consulted |-> {}]
  /\ engine = Idle /\ mixer = Idle /\ matcher = Idle /\ probe = Idle /\ loader = Idle

NextDetect ==
  \/ DetectOverride
  \/ DetectUnit

SpecDetect == InitDetect /\ [][NextDetect]_vars

\* ------------------------------------------------------------------- claims
\* The daemon is applying a debounced transition.
InTransition ==
  \/ pc \in {"set_audio", "toggle_hat", "commit"}
  \/ pc \in RestartPcs /\ ret = "transition"

\* s is x immediately followed, somewhere, by y.
Adjacent(s, x, y) == \E i \in 1..(Len(s) - 1) : s[i] = x /\ s[i + 1] = y
Occurs(s, x) == \E i \in 1..Len(s) : s[i] = x

\* C1: the side effects of a transition run, and last_state changes to v, only
\* in a pass whose reading and the two readings fed before it all equal v; with
\* the streak below 3 no side effect runs and last_state keeps its value.
C1_DebounceGate ==
  /\ [](InTransition =>
          /\ stable_count = debounce_polls
          /\ stable # None
          /\ fed = <<stable[1], stable[1], stable[1]>>)
  /\ [][(last_state' # last_state /\ pc' # "exited") =>
          /\ stable_count = debounce_polls
          /\ last_state' = stable
          /\ fed = <<stable[1], stable[1], stable[1]>>]_vars
  /\ [][(pc = "poll" /\ stable_count' < debounce_polls) =>
          (pc' \in {"loop_top", "except", "exited"} /\ (pc' # "exited" => last_state' = last_state))]_vars

C1_Witness ==
  /\ pc = "commit"
  /\ last_state = Some(FALSE)
  /\ stable = Some(TRUE)
  /\ fed = <<TRUE, TRUE, TRUE>>

\* C2: a transition that completes has called set_audio with the stable value
\* and then toggle_hat with its negation; and once a transition has completed,
\* the profile last routed and the joystick state last requested are the ones
\* matching last_state whenever the daemon is between two passes.
C2_SideEffectsMatch ==
  /\ pc = "commit" =>
       /\ Adjacent(calls, SetAudioCall(stable[1]), ToggleHatCall(~stable[1]))
       /\ audio = stable
       /\ hatReq = Some(~stable[1])
  /\ (pc = "loop_top" /\ last_state # None) =>
       /\ audio = last_state
       /\ hatReq = Some(~last_state[1])

\* C3: when restart_fbcp returns, no compositor that was alive when it was
\* called is still alive, and exactly one new one exists, with the expected argv.
C3_RestartReplaces ==
  [][(pc = "r_spawn" /\ pc' \in {"loop_top", "poll", "commit"}) =>
       /\ stale \cap LivePids(procs') = {}
       /\ \E p \in Pids : /\ LivePids(procs') \ LivePids(procs) = {p}
                          /\ procs'[p] = ExpectedArgv]_vars

\* C4: when the fresh instance is about to be spawned, every enumerated PID
\* still alive has been sent SIGKILL; the forced kill comes only after the
\* GRACE_POLLS passes of the wait, and only PIDs sent SIGTERM are sent SIGKILL.
C4_KillBeforeSpawn ==
  /\ pc = "r_spawn" => StillAlive(procs, pids) \subseteq killed
  /\ pc = "r_sigkill" => polls = GRACE_POLLS /\ alive # {}
  /\ killed \subseteq termed
  /\ killed # {} => pc = "r_spawn"

C4_Witness ==
  /\ pc = "r_spawn"
  /\ killed # {}
  /\ StillAlive(procs, pids) # {}
  /\ polls = GRACE_POLLS


C8_LoopNeverCrashes ==
  /\ [][(InLoop /\ Ended') => (pc' = "exited" /\ exit_code' = Some(0) /\ HandleSignal)]_vars
  /\ [][(pc = "except" /\ pc' # pc) => pc' \in {"loop_top", "exited"}]_vars
  /\ [](InLoop => exit_code = None)

C8_Witness ==
  /\ pc = "except"
  /\ Occurs(calls, "restart_fbcp")
  /\ ~Occurs(calls, "hdmi_connected")

\* C9: while the stable reading differs from the applied state, every pass that
\* feeds a reading attempts the side effects of the transition (again).
C9_RetriedWhileRelevant ==
  [][(pc = "poll" /\ pc' \notin {"except", "exited"}
        /\ stable_count' >= debounce_polls /\ stable' # last_state') =>
       pc' = "set_audio"]_vars

\* C10: in ExternallyManaged mode the daemon is never inside restart_fbcp or
\* ensure_fbcp_running, has sent no SIGTERM or SIGKILL, and a compositor
\* appears only through the service manager: in a start the daemon asked for,
\* at once or when the start job is done.
C10_ExternalHandsOff ==
  /\ [](~manage_fbcp =>
          /\ pc \notin RestartPcs \cup {"ensure"}
          /\ termed = {} /\ killed = {}
          /\ ~Occurs(calls, "restart_fbcp"))
  /\ [][(~manage_fbcp /\ pc # "start" /\ LivePids(procs') \ LivePids(procs) # {}) =>
          /\ pc \in {"startup_ext", "ext_check"} \/ SystemdLateStart
          /\ LivePids(procs) = {}]_vars

C10_Witness ==
  /\ ~manage_fbcp
  /\ pc = "commit"
  /\ last_state # None
  /\ LivePids(procs) = {}
  /\ Occurs(calls, "systemctl_start")


\* The calls of the current pass made after the probe was polled: those of the
\* transition block, lines 489-502.
TransitionCalls ==
  IF Occurs(calls, "hdmi_connected")
    THEN LET i == CHOOSE k \in 1..Len(calls) : calls[k] = "hdmi_connected"
         IN SubSeq(calls, i + 1, Len(calls))
    ELSE <<>>

\* C11: a transition applied while last_state is None calls set_audio and
\* toggle_hat and not restart_fbcp; a later one calls restart_fbcp exactly once,
\* after set_audio and toggle_hat, exactly when the mode is SelfManaged.
C11_RestartAfterFirst ==
  /\ pc = "commit" =>
       TransitionCalls =
         <<SetAudioCall(stable[1]), ToggleHatCall(~stable[1])>> \o
           (IF manage_fbcp /\ last_state # None THEN <<"restart_fbcp">> ELSE <<>>)
  /\ (pc \in RestartPcs /\ ret = "transition") =>
       /\ manage_fbcp /\ last_state # None
       /\ TransitionCalls =
            <<SetAudioCall(stable[1]), ToggleHatCall(~stable[1]), "restart_fbcp">>

C11_Witness ==
  /\ pc = "commit"
  /\ manage_fbcp
  /\ last_state = Some(FALSE)
  /\ stable = Some(TRUE)
  /\ TransitionCalls = <<"set_audio(True)", "toggle_hat(False)", "restart_fbcp">>

\* C12: in SelfManaged mode the liveness check of a pass ends, whatever the
\* debounce state, with a compositor running: one it found, or the one
\* restart_fbcp has just spawned with the expected argv in that same pass.
C12_LivenessSelfHeals ==
  /\ (pc = "poll" /\ manage_fbcp) =>
       /\ LivePids(procs) # {}
       /\ Occurs(calls, "restart_fbcp") => \E p \in Pids : procs[p] = ExpectedArgv
  /\ (pc \in RestartPcs /\ ret = "liveness") =>
       manage_fbcp /\ Occurs(calls, "restart_fbcp")

C12_Witness ==
  /\ pc = "poll"
  /\ manage_fbcp
  /\ Occurs(calls, "restart_fbcp")
  /\ last_state # None
  /\ stable_count = 1
  /\ \E p \in Pids : procs[p] = ExpectedArgv

\* C6: a step of an instance launched while another instance holds the lock
\* changes nothing: not the lock file, which keeps the holder's PID, nor the
\* compositors, the audio routing or the joystick module; and it exits 0.
C6_SecondInstanceInert ==
  [][\A i \in Insts :
       (lockOwner \notin {0, i} /\ inst'[i] # inst[i]) =>
          /\ lockFile' = lockFile
          /\ UNCHANGED <<procs, audio, hat_loaded, hatReq>>
          /\ (inst'[i] = "exited" => instExit'[i] = Some(0))]_vars

\* C7: at most one instance is past lock acquisition, it is the one holding
\* the lock, and an instance that finds the lock held exits with status 0.
C7_SingleInstance ==
  /\ [](/\ Cardinality({i \in Insts : inst[i] = "running"}) <= 1
        /\ \A i \in Insts : inst[i] = "running" <=> lockOwner = i)
  /\ [][\A i \in Insts :
          (inst[i] = "opened" /\ lockOwner \notin {0, i} /\ inst'[i] # inst[i]) =>
             (inst'[i] = "exited" /\ instExit'[i] = Some(0) /\ lockOwner' = lockOwner)]_vars
  /\ [][\A i \in Insts :
          (inst[i] = "opened" /\ lockOwner = 0 /\ inst'[i] # inst[i]) =>
             (inst'[i] = "running" /\ lockOwner' = i)]_vars

C7_Witness ==
  \E i, j \in Insts :
    /\ i # j
    /\ inst[i] = "running" /\ lockOwner = i
    /\ inst[j] = "exited" /\ instExit[j] = Some(0)
    /\ lockFile = i

\* C17: a redundant instance, which did not get the lock, exits with status 0;
\* an instance ended by an exception that escapes main() exits with status 1.
C17_ExitStatuses ==
  \A i \in Insts :
    /\ instEnd[i] = "redundant" => instExit[i] = Some(0)
    /\ instEnd[i] = "exception" => instExit[i] = Some(1)

\* C17 as stated: both a redundant instance and an instance ended by an
\* exception that escapes main() exit with status 0.
C17_ExitZeroBoth ==
  \A i \in Insts :
    instEnd[i] \in {"redundant", "exception"} => instExit[i] = Some(0)

C17_Witness ==
  \E i, j \in Insts :
    /\ instEnd[i] = "redundant" /\ instExit[i] # None
    /\ instEnd[j] = "exception" /\ instExit[j] # None

\* C18: wherever the daemon is, startup, a loop step, restart_fbcp or the loop's
\* exception handler, a signal ends it with status 0 and leaves every
\* compositor process as it was; a daemon ended by a signal has status 0.
C18_SignalExitsZero ==
  /\ ~Ended =>
       ENABLED (HandleSignal /\ pc' = "exited" /\ exit_code' = Some(0)
                  /\ instExit'[1] = Some(0) /\ procs' = procs)
  /\ ~Ended => ~ENABLED (HandleSignal /\ pc' # "exited")
  /\ pc = "exited" => (exit_code = Some(0) /\ instEnd[1] = "signal")

C18_Witness ==
  /\ pc = "exited"
  /\ exit_code = Some(0)
  /\ instEnd[1] = "signal"
  /\ hatReq # None
  /\ Cardinality(LivePids(procs)) = 2

\* C19: the lock is never held for an instance that has ended, whether it ended
\* on a signal or on an exception and whether or not a compositor it spawned is
\* still alive; and an instance launched while no instance runs gets the lock,
\* whatever the lock file on disk holds.
C19_LockReleasedOnExit ==
  /\ [](lockOwner # 0 => inst[lockOwner] = "running")
  /\ [][\A i \in Insts :
          (inst[i] = "opened" /\ inst'[i] # inst[i]
             /\ \A j \in Insts : inst[j] # "running") =>
            (inst'[i] = "running" /\ lockOwner' = i /\ lockFile' = i)]_vars

C19_Witness ==
  \E i, j \in Insts :
    /\ i # j
    /\ inst[i] = "exited" /\ instEnd[i] = "exception" /\ child[i]
    /\ inst[j] = "running" /\ lockOwner = j

\* The reference debounce function: the number of identical readings that end
\* at position i, and the transitions applied by the first n readings, a
\* transition to seq[i] being applied where that number is 3 and seq[i] is not
\* the value applied last (None at first).
RECURSIVE RunLength(_, _)
RunLength(seq, i) ==
  IF i = 1 \/ seq[i - 1] # seq[i] THEN 1 ELSE 1 + RunLength(seq, i - 1)

RECURSIVE RefApplied(_, _)
RefApplied(seq, n) ==
  IF n = 0 THEN <<>>
  ELSE LET before == RefApplied(seq, n - 1)
           lastApplied == IF before = <<>> THEN None ELSE Some(before[Len(before)][2])
       IN IF RunLength(seq, n) = 3 /\ Some(seq[n]) # lastApplied
            THEN Append(before, <<n, seq[n]>>)
            ELSE before

\* C13: on every sequence of readings the transitions the loop applies are
\* those of the reference debounce function, no two applied in a row carry the
\* same value, and [false,false,true,true,true,false] gives one transition, to
\* true, at the fifth reading.
C13_MatchesReference ==
  engine.at = "feeding" =>
    /\ engine.applied = RefApplied(engine.inputs, engine.fedN)
    /\ \A k \in 1..(Len(engine.applied) - 1) :
         engine.applied[k][2] # engine.applied[k + 1][2]
    /\ last_state = (IF engine.applied = <<>> THEN None
                     ELSE Some(engine.applied[Len(engine.applied)][2]))
    /\ (engine.fedN = 6 /\ SubSeq(engine.inputs, 1, 6) = <<FALSE, FALSE, TRUE, TRUE, TRUE, FALSE>>) =>
         engine.applied = <<<<5, TRUE>>>>

C13_Witness ==
  /\ engine.at = "feeding"
  /\ engine.fedN = MaxReadings
  /\ SubSeq(engine.inputs, 1, 7) = <<TRUE, TRUE, TRUE, TRUE, FALSE, FALSE, FALSE>>
  /\ engine.applied = <<<<3, TRUE>>, <<7, FALSE>>>>

\* The value a readback reports: the text after its last "values=".
ReadValue(out) ==
  IF ~Contains(out, ValuesEq) THEN <<>>
  ELSE LET i == CHOOSE k \in 0..(Len(out) - Len(ValuesEq)) :
                  /\ SubSeq(out, k + 1, k + Len(ValuesEq)) = ValuesEq
                  /\ \A j \in (k + 1)..(Len(out) - Len(ValuesEq)) :
                       SubSeq(out, j + 1, j + Len(ValuesEq)) # ValuesEq
       IN SubSeq(out, i + Len(ValuesEq) + 1, Len(out))

\* The readback reports the intended value: a number as exactly that number,
\* a symbolic value by containment.
ReportsValue(val, out) ==
  IF IsDigit(val) THEN ReadValue(out) = val ELSE Contains(out, Bracketed(val))

\* C14: _amixer makes at most 3 write+readback attempts, declares success
\* only on a readback that reports the intended value (a different number is
\* not a match), makes no attempt after one whose readback reported it, and a
\* write of "1" read back as values=1 returns after the first attempt.
C14_MixerWriteVerified ==
  mixer.at \in {"amixer", "amixer_done"} =>
    /\ mixer.tries <= AMIXER_TRIES
    /\ Len(mixer.outs) = mixer.tries
    /\ mixer.result = "matched" =>
         /\ mixer.outs[mixer.tries].kind = "readback"
         /\ ReportsValue(mixer.value, mixer.outs[mixer.tries].out)
    /\ \A k \in 1..(mixer.tries - 1) :
         mixer.outs[k].kind = "readback" => ~ReportsValue(mixer.value, mixer.outs[k].out)
    /\ (mixer.value = <<"1">> /\ mixer.tries >= 1 /\ mixer.outs[1].kind = "readback"
          /\ Contains(mixer.outs[1].out, ValuesEq \o <<"1">>)) =>
         (mixer.tries = 1 /\ mixer.result = "matched")

\* The steps of set_audio(hdmi), in order.
AllSteps(hdmi) ==
  [k \in 1..Len(AmixerCalls(hdmi)) |-> <<"_amixer">> \o AmixerCalls(hdmi)[k]]
    \o <<<<"_ensure_snippets">>>>
    \o [k \in 1..Len(AsoundDests) |-> <<"copy", AsoundDests[k]>>]
    \o <<<<"alsactl restore">>, <<"runcommand.cfg">>>>

\* C20: whatever fails, set_audio goes through its steps in order, the four
\* mixer writes, then both copies, the reload and the runcommand key, and
\* returns having attempted all of them; it never raises.
C20_BothHalvesAttempted ==
  mixer.at # "idle" =>
    /\ mixer.at # "raised"
    /\ mixer.entry = "set_audio" =>
         /\ mixer.steps = SubSeq(AllSteps(mixer.to_hdmi), 1, Len(mixer.steps))
         /\ mixer.at = "returned" => mixer.steps = AllSteps(mixer.to_hdmi)
         /\ mixer.at # "returned" => ENABLED NextAudio

C20_Witness ==
  /\ mixer.at = "returned"
  /\ mixer.entry = "set_audio"
  /\ mixer.failed = {<<"_amixer", k>> : k \in 1..4} \cup {<<"copy", k>> : k \in 1..2}
                      \cup {<<"alsactl", 1>>, <<"runcommand", 1>>}
  /\ mixer.steps = AllSteps(mixer.to_hdmi)

\* The argument vector of a process is the expected one: the arguments after
\* the executable are FBCP_ARGS, and the executable is FBCP_CMD or the same file.
ArgvIsExpected(argv) ==
  /\ argv # <<>>
  /\ Tail(argv) = FBCP_ARGS
  /\ (argv[1] = FBCP_CMD \/ realpath(argv[1]) = realpath(FBCP_CMD))

\* C15: fbcp_cmdline_matches returns true exactly when some running compositor
\* process has the expected argument vector; a process that differs in an
\* argument, in their order or in their number never makes it true.
C15_MatchesExactArgv ==
  matcher.at = "done" =>
    /\ matcher.result =>
         \E k \in 1..Len(matcher.cmdlines) : ArgvIsExpected(matcher.cmdlines[k])
    /\ (\E k \in 1..Len(matcher.cmdlines) : ArgvIsExpected(matcher.cmdlines[k])) =>
         matcher.result

\* C16: a call of hdmi_connected uses one backend; when a status file exists
\* the result is true exactly when some status file reads "connected" and the
\* legacy utility is not invoked, even with every status file unreadable or in
\* another state; the legacy backend runs only when no status file exists.
C16_OneBackend ==
  probe.at # "idle" =>
    /\ Cardinality(probe.backends) <= 1
    /\ (\E c \in Connectors : probe.files[c].exists) =>
         /\ "legacy" \notin probe.backends
         /\ probe.at \notin {"legacy", "raised"}
         /\ probe.at = "done" =>
              /\ probe.backends = {"kms"}
              /\ probe.result <=>
                   \E c \in Connectors :
                     /\ probe.files[c].exists /\ probe.files[c].canRead
                     /\ Strip(probe.files[c].text) = <<"connected">>
    /\ ("legacy" \in probe.backends \/ probe.at = "legacy") =>
         \A c \in Connectors : ~probe.files[c].exists

C16_Witness ==
  /\ probe.at = "done"
  /\ \A c \in Connectors : probe.files[c].exists
  /\ \E c \in Connectors : ~probe.files[c].canRead
  /\ \E c \in Connectors : probe.files[c].text = <<"unknown", "\n">>
  /\ LegacyPresent(probe.tvservice)
  /\ ~probe.result
  /\ probe.backends = {"kms"}

\* The destination is absent or its content is not that of the snippet.
AbsentOrDiffers(dst, snippet) == dst = None \/ dst # snippet

\* C21: in _swap_asound a destination is written only if it is absent or
\* differs from the snippet of the profile, and it is written then unless the
\* step fails; after a step without error the destination holds the snippet;
\* a second call for the same profile writes to no destination the first call
\* brought up to date.
C21_CopiesOnlyWhenNeeded ==
  mixer.entry = "_swap_asound" =>
    /\ \A k \in 1..Len(mixer.copies) :
         LET c == mixer.copies[k]
         IN /\ c.src = Snippet(mixer.files, mixer.to_hdmi)
            /\ c.wrote => AbsentOrDiffers(c.before, c.src)
            /\ (c.exc = "none" /\ AbsentOrDiffers(c.before, c.src)) => c.wrote
            /\ c.exc = "none" => (c.after = c.src /\ mixer.files.dests[k] = c.src)
            /\ ~c.wrote => c.after = c.before
    /\ (mixer.prev # None /\ mixer.prev[1].to_hdmi = mixer.to_hdmi) =>
         \A k \in 1..Len(mixer.copies) :
           mixer.prev[1].copies[k].exc = "none" =>
             (~mixer.copies[k].wrote /\ mixer.copies[k].after = mixer.copies[k].before)

C21_Witness ==
  /\ mixer.entry = "_swap_asound"
  /\ mixer.at = "returned"
  /\ mixer.prev # None
  /\ mixer.prev[1].to_hdmi = mixer.to_hdmi
  /\ \A k \in 1..Len(AsoundDests) :
       /\ mixer.prev[1].copies[k].wrote /\ mixer.prev[1].copies[k].exc = "none"
       /\ ~mixer.copies[k].wrote /\ mixer.copies[k].exc = "none"
  /\ mixer.prev[1].copies[1].before = None
  /\ mixer.prev[1].copies[2].before \notin {None, mixer.prev[1].copies[2].src}

\* The lines of a text that begin with audio_device=, and the others.
KeyLines(text) == SelectSeq(splitlines(text), LAMBDA l : l # <<>> /\ l[1] = AudioDeviceKey)
OtherLines(text) == SelectSeq(splitlines(text), LAMBDA l : l = <<>> \/ l[1] # AudioDeviceKey)

\* C22: after the runcommand.cfg step of _swap_asound succeeded the file has
\* exactly one audio_device= line, with hdmi for the HDMI profile and local for
\* the other, and the other lines of the previous file, unchanged and in their
\* order; a second call for the same profile leaves the content as it is; a
\* step that failed has left the file as it was.
C22_OnlyKeyRewritten ==
  (mixer.entry = "_swap_asound" /\ mixer.cfgRun # None) =>
    LET r == mixer.cfgRun[1]
        old == IF r.before = None THEN <<>> ELSE r.before[1]
    IN /\ r.exc = "none" =>
            /\ r.after # None
            /\ KeyLines(r.after[1]) =
                 << <<AudioDeviceKey, IF mixer.to_hdmi THEN "hdmi" ELSE "local">> >>
            /\ OtherLines(r.after[1]) = OtherLines(old)
       /\ ( /\ r.exc = "none"
            /\ mixer.prev # None
            /\ mixer.prev[1].to_hdmi = mixer.to_hdmi
            /\ mixer.prev[1].cfgRun[1].exc = "none" ) => r.after = r.before
       /\ r.exc # "none" => r.after = r.before

\* C23: toggle_hat runs modprobe to load the module only when enable is true
\* and the module is not loaded, to unload it only when enable is false and
\* the module is loaded, and runs nothing otherwise; a call with the argument
\* of the call before, whose modprobe did its work, runs nothing.
C23_ToggleIdempotent ==
  loader.at = "calling" =>
    \A k \in 1..Len(loader.calls) :
      LET c == loader.calls[k]
      IN /\ c.cmd = "modprobe" => (c.enable /\ ~c.loaded)
         /\ c.cmd = "modprobe -r" => (~c.enable /\ c.loaded)
         /\ c.cmd \in {"modprobe", "modprobe -r", "none"}
         /\ (k > 1 /\ loader.calls[k - 1].enable = c.enable /\ loader.calls[k - 1].ran)
              => c.cmd = "none"
         /\ (k = Len(loader.calls) /\ c.ran) => hat_loaded = c.enable

C23_Witness ==
  /\ loader.at = "calling"
  /\ Len(loader.calls) >= 4
  /\ loader.calls[1].cmd = "modprobe" /\ loader.calls[1].ran
  /\ loader.calls[2].enable /\ loader.calls[2].cmd = "none"
  /\ loader.calls[3].cmd = "modprobe -r" /\ loader.calls[3].ran
  /\ ~loader.calls[4].enable /\ loader.calls[4].cmd = "none"

\* C25: _external_fbcp_manager_present returns true exactly when the override
\* is set, or the unit file is in one of the unit directories and systemctl
\* exits with status 0 for is-enabled or for is-active; with the override set
\* neither a unit file nor systemctl is consulted; without it, a systemctl
\* that is missing, fails or times out on both queries gives false.
C25_ModeDetection ==
  detector.at = "done" =>
    LET override == Strip(detector.env) = <<"1">>
        unitFile == \E b \in 1..Len(UnitDirs) : detector.units[b]
        enabled == detector.is_enabled = Exit(0)
        active == detector.is_active = Exit(0)
    IN /\ detector.result <=> (override \/ (unitFile /\ (enabled \/ active)))
       /\ override => detector.consulted = {}
       /\ (~override /\ ~enabled /\ ~active) => ~detector.result
       /\ (~override /\ ~unitFile) => detector.consulted \subseteq {"unit file"}

C25_Witness ==
  /\ detector.at = "done"
  /\ detector.result
  /\ detector.env = <<"0">>
  /\ detector.units = <<FALSE, FALSE, TRUE>>
  /\ detector.is_enabled = Raises("TimeoutExpired")
  /\ detector.is_active = Exit(0)
  /\ detector.consulted = {"unit file", "is-enabled", "is-active"}

\* What a step leaves of the process table: every process that was there, and
\* at most one more, started as [FBCP_CMD] + FBCP_ARGS.
OnlySpawnsExpected ==
  /\ \A p \in Pids : procs[p] # NoProc => procs'[p] = procs[p]
  /\ Cardinality(LivePids(procs') \ LivePids(procs)) <= 1
  /\ \A p \in LivePids(procs') \ LivePids(procs) : procs'[p] = ExpectedArgv

\* C24: ensure_fbcp_running signals no process and stops no unit; when pidof
\* reports a compositor, whatever its arguments, it does nothing; otherwise it
\* spawns at most one compositor, with the expected argv; a Popen that fails
\* is not raised: the call returns to its caller.
C24_EnsureOnlySpawns ==
  pc = "ensure" =>
    /\ ENABLED EnsureFbcpRunning
    /\ ~ENABLED (EnsureFbcpRunning /\ ~OnlySpawnsExpected)
    /\ ~ENABLED (EnsureFbcpRunning /\ pc' \notin {"loop_top", "liveness"})
    /\ ~ENABLED (EnsureFbcpRunning /\ <<termed', killed'>> # <<termed, killed>>)
    /\ \A pidofOk, popenOk \in BOOLEAN :
         /\ fbcp_running(procs, pidofOk) => ~EnsureSpawns(procs, pidofOk, popenOk)
         /\ ~popenOk => ~EnsureSpawns(procs, pidofOk, popenOk)
    /\ fbcp_running(procs, TRUE) => ENABLED (EnsureFbcpRunning /\ procs' = procs)

\* ensure_fbcp_running has returned from the fallback of the demotion, with a
\* compositor of other arguments still running.
C24_Witness ==
  /\ pc = "liveness"
  /\ manage_fbcp
  /\ Demote(external_start_failures)
  /\ calls # <<>> /\ calls[Len(calls)] = "systemctl_start"
  /\ \E p \in Pids : procs[p] = StaleArgv
  /\ \E p \in Pids : procs[p] = ExpectedArgv

\* C26: every external command of the loop is bounded by its timeout: the
\* daemon is never left waiting, inside a pass of the loop, for a command
\* that hangs, so the pass ends and the next poll is reached.
C26_CommandsBounded == pc # "blocked"

\* C30: the legacy backend returns true exactly when tvservice exited with
\* status 0 and left a dump of at least 128 bytes; it returns false when the
\* query times out, when the utility is missing and on another exit status; so
\* with no status file and no utility hdmi_connected returns false.
C30_LegacyBackend ==
  "legacy" \in probe.backends =>
    LET q == probe.tvservice
    IN /\ probe.at = "done" =>
            (probe.result <=> (q.exc = "none" /\ q.rc = 0 /\ q.size >= 128))
       /\ (q.exc \in {"TimeoutExpired", "FileNotFoundError"} \/ (q.exc = "none" /\ q.rc # 0)) =>
            (probe.at = "done" /\ ~probe.result)
       /\ ((\A c \in Connectors : ~probe.files[c].exists) /\ q.exc = "FileNotFoundError") =>
            (probe.at = "done" /\ ~probe.result /\ probe.backends = {"legacy"})

C30_Witness ==
  /\ probe.at = "done"
  /\ probe.backends = {"legacy"}
  /\ probe.tvservice = Dumped(0, 128)
  /\ probe.result

\* C29: restart_fbcp sends SIGKILL only after the GRACE_POLLS checks of the
\* wait have all found an enumerated PID alive, and only to the PIDs the last
\* check found alive; when a check finds none alive, or none was enumerated,
\* the wait ends at that check and the spawn follows with no SIGKILL sent.
C29_SigkillAfterFullWait ==
  /\ pc = "r_sigkill" => (polls = GRACE_POLLS /\ alive # {})
  /\ killed # {} => (polls = GRACE_POLLS /\ killed = alive /\ alive \subseteq pids)
  /\ pc = "r_wait" => (polls < GRACE_POLLS /\ killed = {})
  /\ (pc = "r_spawn" /\ polls < GRACE_POLLS) => (alive = {} /\ killed = {})
  /\ (pc = "r_spawn" /\ alive = {}) => killed = {}
  /\ (pc = "r_spawn" /\ pids = {}) => (polls = 0 /\ killed = {})
  /\ (pc = "r_wait" /\ StillAlive(procs, pids) = {}) =>
       ~ENABLED (RestartWait /\ pc' # "r_spawn")

\* The enumerated compositors went away halfway through the wait.
C29_Witness ==
  /\ pc = "r_spawn"
  /\ termed # {}
  /\ polls > 0 /\ polls < GRACE_POLLS
  /\ alive = {}
  /\ killed = {}

\* C28: a pass of the loop that ends in the loop's handler has polled the
\* probe, unless it is the probe itself that failed: a supervisor step that
\* fails does not keep the reading of that pass from the debounce engine.
C28_EveryPassPolls ==
  pc = "except" =>
    \/ Occurs(calls, "hdmi_connected")
    \/ calls # <<>> /\ calls[Len(calls)] = "heartbeat"

\* The place of the daemon in the order of the steps of a pass: the heartbeat
\* (made on leaving "loop_top"), the recovery check with its fallback, the
\* liveness check with its restart, the poll, then set_audio, toggle_hat, the
\* restart of the transition and the commit.
StepRank ==
  CASE pc = "loop_top" -> 0
    [] pc = "ext_check" -> 1
    [] pc = "ensure" /\ ret = "fallback" -> 2
    [] pc = "liveness" -> 3
    [] pc \in RestartPcs /\ ret = "liveness" -> 4
    [] pc = "poll" -> 5
    [] pc = "set_audio" -> 6
    [] pc = "toggle_hat" -> 7
    [] pc \in RestartPcs /\ ret = "transition" -> 8
    [] pc = "commit" -> 9
    [] OTHER -> 10

\* The place of the k-th call of the pass in the order of the calls.
CallRank(k) ==
  CASE calls[k] = "heartbeat" -> 1
    [] calls[k] = "systemctl_start" -> 2
    [] calls[k] = "hdmi_connected" -> 4
    [] calls[k] \in {SetAudioCall(TRUE), SetAudioCall(FALSE)} -> 5
    [] calls[k] \in {ToggleHatCall(TRUE), ToggleHatCall(FALSE)} -> 6
    [] calls[k] = "restart_fbcp" ->
         IF \E j \in 1..(k - 1) : calls[j] = "hdmi_connected" THEN 7 ELSE 3

\* C27: inside a pass the daemon only moves forward through heartbeat,
\* recovery check, liveness check, poll, set_audio, toggle_hat, restart; a
\* pass that goes through without an exception has been at the recovery check,
\* the liveness check and the poll; and a demotion made by the recovery check
\* leads, through the fallback start, to the liveness check of the same pass
\* with the mode SelfManaged, which can call restart_fbcp there and then.
C27_FixedOrder ==
  /\ [][(InLoop /\ pc # "except" /\ pc' \notin {"loop_top", "except", "exited", "blocked"}) =>
          /\ StepRank' >= StepRank
          /\ (pc' # pc /\ pc' \notin RestartPcs) => StepRank' > StepRank]_vars
  /\ [](\A j, k \in 1..Len(calls) : j < k => CallRank(j) < CallRank(k))
  /\ [][(pc = "loop_top" /\ pc' \notin {"loop_top", "except", "exited"}) => pc' = "ext_check"]_vars
  /\ [][(pc = "ext_check" /\ pc' # "exited") =>
          /\ pc' = (IF manage_fbcp' /\ ~manage_fbcp THEN "ensure" ELSE "liveness")
          /\ pc' = "ensure" => ret' = "fallback"]_vars
  /\ [][(pc = "ensure" /\ ret = "fallback" /\ pc' # "exited") =>
          (pc' = "liveness" /\ manage_fbcp')]_vars
  /\ [][(pc = "liveness" /\ pc' # "exited") =>
          \/ pc' = "poll"
          \/ pc' = "r_pidof" /\ ret' = "liveness" /\ manage_fbcp]_vars
  /\ [][(pc' = "poll" /\ pc # "poll") =>
          (pc = "liveness" \/ (pc = "r_spawn" /\ ret = "liveness"))]_vars
  /\ [][(pc' = "set_audio" /\ pc # "set_audio") => pc = "poll"]_vars

\* The liveness check has called restart_fbcp in the pass of the demotion.
C27_Witness ==
  /\ pc = "r_pidof"
  /\ ret = "liveness"
  /\ manage_fbcp
  /\ failRun = external_start_failure_threshold
  /\ prevAttemptAt = now
  /\ Occurs(calls, "systemctl_start")
  /\ calls[Len(calls)] = "restart_fbcp"

\* Every copy step of the call in progress raised nothing but the
\* FileNotFoundError of a missing snippet.
OnlySnippetMissing ==
  /\ Len(mixer.copies) = Len(AsoundDests)
  /\ \A k \in 1..Len(mixer.copies) :
       mixer.copies[k].src = None /\ mixer.copies[k].exc = "FileNotFoundError"

\* C31: when the snippet of the target profile is missing, a call of
\* _swap_asound for that profile leaves the hardcoded fallback content of the
\* profile in the system-wide and in the user audio-routing file.
C31_FallbackRouted ==
  ( /\ mixer.entry = "_swap_asound"
    /\ mixer.at = "returned"
    /\ Snippet(mixer.files, mixer.to_hdmi) = None
    /\ OnlySnippetMissing ) =>
      \A d \in 1..Len(AsoundDests) : mixer.files.dests[d] = Some(DefaultOf(mixer.to_hdmi))

\* The fallback was written, under /home/pi, and the destinations are as they were.
C31_FallbackUnused ==
  /\ mixer.entry = "_swap_asound"
  /\ mixer.at = "returned"
  /\ Snippet(mixer.files, mixer.to_hdmi) = None
  /\ OnlySnippetMissing
  /\ FallbackFile(mixer.files, mixer.to_hdmi) = Some(DefaultOf(mixer.to_hdmi))
  /\ \A d \in 1..Len(AsoundDests) :
       mixer.files.dests[d] = mixer.copies[d].before /\ ~mixer.copies[d].wrote

\* The step taken puts a new compositor into the process table.
SpawnsOne == \E p \in Pids : procs[p] = NoProc /\ procs'[p] # NoProc

\* C32: in SelfManaged mode the daemon spawns a compositor only when no
\* compositor is alive, so that after the startup step, a liveness check or a
\* restart at most one compositor is alive, whatever pidof did.
C32_NeverSpawnsBesideLive ==
  /\ [][(manage_fbcp /\ pc \in {"ensure", "r_spawn"} /\ SpawnsOne) =>
          LivePids(procs) = {}]_vars
  /\ []((manage_fbcp /\ pc \in {"loop_top", "poll", "commit"}) =>
          Cardinality(LivePids(procs)) <= 1)

\* C33: the mode turns SelfManaged only when the recovery check has not found
\* the compositor running since the first of the failures that are counted:
\* failures with a period in between in which the compositor was up do not add
\* up to a demotion.
C33_DemotionUninterrupted ==
  (pc = "ensure" /\ ret = "fallback") => ~upSeen

\* A compositor was running when the signal arrived, or when the restart_fbcp
\* call the signal interrupts began.
RanBeforeSignal == LivePids(procs) # {} \/ (pc \in RestartPcs /\ stale # {})

\* C34: a daemon that exits on a signal leaves a compositor running when one
\* was running before, wherever the signal finds it, the stretch of
\* restart_fbcp between the signals to the old instance and the spawn of the
\* new one included.
C34_CompositorOutlivesDaemon ==
  [][(~Ended /\ pc' = "exited" /\ RanBeforeSignal) => LivePids(procs') # {}]_vars

\* C35: the SelfManaged startup step, once the early-boot unit is stopped,
\* goes to ensure_fbcp_running when no compositor is running, to restart_fbcp
\* when one is running and none has the expected argv, and straight to the
\* loop, the process table as it is, when one runs with the expected argv.
C35_StartupThreeWay ==
  [][(pc = "startup_self" /\ pc' # "exited") =>
       /\ ~fbcp_running(procs', TRUE) => (pc' = "ensure" /\ ret' = "startup")
       /\ (fbcp_running(procs', TRUE) /\ ~fbcp_cmdline_matches(procs', TRUE)) =>
            (pc' = "r_pidof" /\ ret' = "startup")
       /\ fbcp_cmdline_matches(procs', TRUE) =>
            (pc' = "loop_top" /\ procs' = stop_fbcp_early(procs, procs'[EarlyPid] = NoProc))]_vars

\* The calls of the pass so far are those of a transition to the reading v
\* whose side effects have all been called.
SideEffectsCalled(v) ==
  /\ Occurs(calls, SetAudioCall(v))
  /\ Occurs(calls, ToggleHatCall(~v))
  /\ TransitionRestartDue => Occurs(calls, "restart_fbcp")

\* C36: last_state changes only at line 502, after set_audio, toggle_hat and,
\* when it is due, restart_fbcp of the same pass have returned, and to the
\* reading the last debounce_polls polls agreed on; a side effect that raises
\* leads to the loop's handler and on to the next pass with last_state as it was.
C36_CommitAfterSideEffects ==
  /\ [][(last_state' # last_state /\ pc' # "exited") =>
          /\ pc = "commit"
          /\ last_state' = stable
          /\ stable # None
          /\ stable_count = debounce_polls
          /\ fed = [k \in 1..debounce_polls |-> stable[1]]
          /\ SideEffectsCalled(stable[1])]_vars
  /\ [][(pc' = "commit" /\ pc # "commit") =>
          \/ pc = "toggle_hat" /\ ~TransitionRestartDue
          \/ pc = "r_spawn" /\ ret = "transition" /\ SpawnsOne]_vars
  /\ [][(pc \in {"set_audio", "toggle_hat", "blocked", "except"} \/
          (pc \in RestartPcs /\ ret = "transition")) =>
          (last_state' = last_state \/ pc' = "exited")]_vars

\* restart_fbcp raised in a transition away from an applied state, and
\* last_state still holds that state.
C36_Witness ==
  /\ pc = "except"
  /\ Occurs(calls, "hdmi_connected")
  /\ Occurs(calls, "restart_fbcp")
  /\ last_state # None
  /\ stable # last_state
  /\ stable_count = debounce_polls

====
